---------------------------- MODULE Spec2Model ----------------------------
(***************************************************************************)
(* vue-pascalcase-migrator: the rename plan, the import matcher and        *)
(* rewriter (utils/imports.ts, utils/naming.ts) and the run of             *)
(* renameVueFiles / rename:diff around the physical move.                  *)
(*                                                                         *)
(* Strings are TLA+ strings, read as sequences of one-character strings    *)
(* (Len, SubSeq and \o act on them); indices in the helper operators are   *)
(* 0-based, as in JavaScript.                                              *)
(***************************************************************************)
EXTENDS Integers, Sequences, FiniteSets, TLC

(***************************************************************************)
(* JavaScript string primitives                                            *)
(***************************************************************************)
CharAt(s, i) == IF i >= 0 /\ i < Len(s) THEN SubSeq(s, i + 1, i + 1) ELSE ""

\* s.slice(from) and s.substring(from, to), 0 <= from <= to <= Len(s)
Slice(s, from) == IF from >= Len(s) THEN "" ELSE SubSeq(s, from + 1, Len(s))

Substring(s, from, to) == IF from >= to THEN "" ELSE SubSeq(s, from + 1, to)

StartsWith(s, p) == Len(p) <= Len(s) /\ Substring(s, 0, Len(p)) = p

EndsWith(s, p) == Len(p) <= Len(s) /\ Slice(s, Len(s) - Len(p)) = p

\* the set of 0-based positions at which p occurs in s
Occurrences(s, p) ==
    {i \in 0..(Len(s) - Len(p)) : Substring(s, i, i + Len(p)) = p}

\* s.indexOf(p): the first position at or after i at which p occurs, or -1
RECURSIVE IndexFrom(_, _, _)
IndexFrom(s, p, i) ==
    IF i + Len(p) > Len(s) THEN -1
    ELSE IF Substring(s, i, i + Len(p)) = p THEN i
    ELSE IndexFrom(s, p, i + 1)

\* s.lastIndexOf(p): the last position at or before i at which p occurs, or -1
RECURSIVE LastIndexFrom(_, _, _)
LastIndexFrom(s, p, i) ==
    IF i < 0 THEN -1
    ELSE IF Substring(s, i, i + Len(p)) = p THEN i
    ELSE LastIndexFrom(s, p, i - 1)

LastIndexOf(s, p) == LastIndexFrom(s, p, Len(s) - Len(p))

IndexOf(s, p) == IndexFrom(s, p, 0)

LowerChars == "abcdefghijklmnopqrstuvwxyz"

UpperChars == "ABCDEFGHIJKLMNOPQRSTUVWXYZ"

DigitChars == "0123456789"

LowerSet == {CharAt(LowerChars, i) : i \in 0..25}

UpperSet == {CharAt(UpperChars, i) : i \in 0..25}

DigitSet == {CharAt(DigitChars, i) : i \in 0..9}

IsLower(c) == c \in LowerSet

IsUpper(c) == c \in UpperSet

IsDigit(c) == c \in DigitSet

ToUpperChar(c) == IF IsLower(c) THEN CharAt(UpperChars, IndexOf(LowerChars, c)) ELSE c

ToLowerChar(c) == IF IsUpper(c) THEN CharAt(LowerChars, IndexOf(UpperChars, c)) ELSE c

RECURSIVE ToLowerCase(_)
ToLowerCase(s) ==
    IF s = "" THEN "" ELSE ToLowerChar(CharAt(s, 0)) \o ToLowerCase(Slice(s, 1))

\* s.split(sep) for a one-character separator: a sequence of strings
RECURSIVE Split(_, _)
Split(s, sep) ==
    LET i == IndexOf(s, sep)
    IN  IF i = -1 THEN <<s>>
        ELSE <<Substring(s, 0, i)>> \o Split(Slice(s, i + 1), sep)

RECURSIVE Join(_, _)
Join(parts, sep) ==
    IF Len(parts) = 0 THEN ""
    ELSE IF Len(parts) = 1 THEN parts[1]
    ELSE parts[1] \o sep \o Join(Tail(parts), sep)

(***************************************************************************)
(* node:path (posix)                                                       *)
(***************************************************************************)
\* normalizeString: drop "" and "." segments, ".." removes the segment before
RECURSIVE NormalizeSegments(_, _)
NormalizeSegments(segs, acc) ==
    IF Len(segs) = 0 THEN acc
    ELSE LET h == Head(segs)
         IN  IF h = "" \/ h = "." THEN NormalizeSegments(Tail(segs), acc)
             ELSE IF h = ".."
                  THEN NormalizeSegments(Tail(segs),
                          IF Len(acc) = 0 THEN acc ELSE SubSeq(acc, 1, Len(acc) - 1))
             ELSE NormalizeSegments(Tail(segs), Append(acc, h))

\* path.resolve(base, rel) with base absolute: the last absolute argument
\* wins, then the path is normalised and loses its trailing slash
PathResolve(base, rel) ==
    LET raw == IF StartsWith(rel, "/") THEN rel ELSE base \o "/" \o rel
    IN  "/" \o Join(NormalizeSegments(Split(raw, "/"), <<>>), "/")

PathResolve3(base, mid, rel) == PathResolve(PathResolve(base, mid), rel)

\* path.dirname of an absolute normalised path
PathDirname(p) ==
    LET i == LastIndexOf(p, "/")
    IN  IF i = -1 THEN "." ELSE IF i = 0 THEN "/" ELSE Substring(p, 0, i)

PathBasename(p) ==
    LET i == LastIndexOf(p, "/") IN IF i = -1 THEN p ELSE Slice(p, i + 1)

\* path.extname: from the last "." of the base name, "" when there is none or
\* when the only "." is the first character
PathExtname(p) ==
    LET b == PathBasename(p)
        i == LastIndexOf(b, ".")
    IN  IF i <= 0 \/ b = ".." THEN "" ELSE Slice(b, i)

\* path.basename(p, ext)
PathBasenameExt(p, ext) ==
    LET b == PathBasename(p)
    IN  IF ext # "" /\ b # ext /\ EndsWith(b, ext)
        THEN Substring(b, 0, Len(b) - Len(ext)) ELSE b

PathJoin(dir, name) == PathResolve(dir, name)

(***************************************************************************)
(* utils/naming.ts                                                         *)
(***************************************************************************)
Capitalize(word) == ToUpperChar(CharAt(word, 0)) \o ToLowerCase(Slice(word, 1))

RECURSIVE MapCapitalize(_)
MapCapitalize(words) ==
    IF Len(words) = 0 THEN <<>>
    ELSE <<Capitalize(Head(words))>> \o MapCapitalize(Tail(words))

\* mutant: the extension is not appended again
toPascalCase_DropsExt(kebabName) ==
    LET ext == PathExtname(kebabName)
        baseName == PathBasenameExt(kebabName, ext)
    IN  Join(MapCapitalize(Split(baseName, "-")), "")

\* mutant: the rest of a word is not lower-cased
toPascalCase_KeepsCase(kebabName) ==
    LET ext == PathExtname(kebabName)
        baseName == PathBasenameExt(kebabName, ext)
        words == Split(baseName, "-")
        pascalName == Join([k \in 1..Len(words) |->
                               ToUpperChar(CharAt(words[k], 0)) \o Slice(words[k], 1)], "")
    IN  pascalName \o ext

toPascalCase(kebabName) ==
    LET ext == PathExtname(kebabName)
        baseName == PathBasenameExt(kebabName, ext)
        pascalName == Join(MapCapitalize(Split(baseName, "-")), "")
    IN  pascalName \o ext

IsLowerAlnum(word) ==
    \A i \in 0..(Len(word) - 1) : IsLower(CharAt(word, i)) \/ IsDigit(CharAt(word, i))

\* /^[a-z][a-z0-9]*(-[a-z0-9]+)+$/ : at least two "-"-separated words, each a
\* non-empty run of [a-z0-9], the first one starting with a letter
KebabRegexTest(baseName) ==
    LET words == Split(baseName, "-")
    IN  /\ Len(words) >= 2
        /\ \A k \in 1..Len(words) : words[k] # "" /\ IsLowerAlnum(words[k])
        /\ IsLower(CharAt(words[1], 0))

\* mutant: a file name is kebab-case as soon as it holds a hyphen
isKebabCase_ContainsHyphen(filename) == IndexOf(filename, "-") # -1

isKebabCase(filename) ==
    KebabRegexTest(PathBasenameExt(filename, PathExtname(filename)))

(***************************************************************************)
(* utils/imports.ts                                                        *)
(***************************************************************************)
\* RenameMapping
Mapping(oldPath, newPath, oldName, newName) ==
    [oldPath |-> oldPath, newPath |-> newPath, oldName |-> oldName, newName |-> newName]

\* PathAliases is an object; Object.entries walks it in insertion order, so an
\* alias table is a sequence of [alias, aliasPath] records
DEFAULT_ALIASES ==
    << [alias |-> "@", aliasPath |-> "src"], [alias |-> "~", aliasPath |-> "src"] >>

NoPath == "<null>"

AliasPrefix(alias) == IF EndsWith(alias, "/") THEN alias ELSE alias \o "/"

AliasApplies(moduleSpecifier, alias) ==
    StartsWith(moduleSpecifier, AliasPrefix(alias)) \/ moduleSpecifier = alias

\* mutant: the alias is compared as a plain prefix, without the "/" after it
RECURSIVE resolveAliasImport_PlainPrefix(_, _, _)
resolveAliasImport_PlainPrefix(moduleSpecifier, aliases, projectRoot) ==
    IF Len(aliases) = 0 THEN NoPath
    ELSE LET e == Head(aliases)
         IN  IF StartsWith(moduleSpecifier, e.alias)
             THEN PathResolve3(projectRoot, e.aliasPath, Slice(moduleSpecifier, Len(e.alias)))
             ELSE resolveAliasImport_PlainPrefix(moduleSpecifier, Tail(aliases), projectRoot)

\* mutant: the loop over the aliases goes on after an alias that applies,
\* the last alias that applies resolves the specifier
RECURSIVE resolveAliasImport_LastAlias(_, _, _)
resolveAliasImport_LastAlias(moduleSpecifier, aliases, projectRoot) ==
    IF Len(aliases) = 0 THEN NoPath
    ELSE LET e == Head(aliases)
             relativePath ==
                 IF StartsWith(moduleSpecifier, AliasPrefix(e.alias))
                 THEN Slice(moduleSpecifier, Len(AliasPrefix(e.alias)))
                 ELSE ""
             later == resolveAliasImport_LastAlias(moduleSpecifier, Tail(aliases), projectRoot)
         IN  IF later # NoPath THEN later
             ELSE IF AliasApplies(moduleSpecifier, e.alias)
                  THEN PathResolve3(projectRoot, e.aliasPath, relativePath)
                  ELSE NoPath

RECURSIVE resolveAliasImport(_, _, _)
resolveAliasImport(moduleSpecifier, aliases, projectRoot) ==
    IF Len(aliases) = 0 THEN NoPath
    ELSE LET e == Head(aliases)
             relativePath ==
                 IF StartsWith(moduleSpecifier, AliasPrefix(e.alias))
                 THEN Slice(moduleSpecifier, Len(AliasPrefix(e.alias)))
                 ELSE ""
         IN  IF AliasApplies(moduleSpecifier, e.alias)
             THEN PathResolve3(projectRoot, e.aliasPath, relativePath)
             ELSE resolveAliasImport(moduleSpecifier, Tail(aliases), projectRoot)

\* the cheap filter of matchesImport: the specifier ends with the old file name
EndsWithOldName(moduleSpecifier, oldName) ==
    \/ EndsWith(moduleSpecifier, "/" \o oldName)
    \/ moduleSpecifier = "./" \o oldName
    \/ moduleSpecifier = oldName

\* mutant: a relative specifier is resolved against the directory of the
\* renamed file, not of the importing file
matchesImport_FromMappingDir(importingFile, moduleSpecifier, mapping, aliases, projectRoot) ==
    IF ~EndsWithOldName(moduleSpecifier, mapping.oldName) THEN FALSE
    ELSE LET aliasResolved == resolveAliasImport(moduleSpecifier, aliases, projectRoot)
         IN  IF aliasResolved # NoPath THEN aliasResolved = mapping.oldPath
             ELSE IF StartsWith(moduleSpecifier, ".")
                  THEN PathResolve(PathDirname(mapping.oldPath), moduleSpecifier)
                           = mapping.oldPath
             ELSE FALSE

\* mutant: the match is decided by the file name, the resolved path is not
\* compared
matchesImport_ByName(importingFile, moduleSpecifier, mapping, aliases, projectRoot) ==
    /\ EndsWithOldName(moduleSpecifier, mapping.oldName)
    /\ \/ resolveAliasImport(moduleSpecifier, aliases, projectRoot) # NoPath
       \/ StartsWith(moduleSpecifier, ".")

\* mutant: a specifier under no alias is resolved against the directory of
\* the importing file whether it starts with "." or not
matchesImport_BareAsRelative(importingFile, moduleSpecifier, mapping, aliases, projectRoot) ==
    IF ~EndsWithOldName(moduleSpecifier, mapping.oldName) THEN FALSE
    ELSE LET aliasResolved == resolveAliasImport(moduleSpecifier, aliases, projectRoot)
         IN  IF aliasResolved # NoPath THEN aliasResolved = mapping.oldPath
             ELSE PathResolve(PathDirname(importingFile), moduleSpecifier) = mapping.oldPath

matchesImport(importingFile, moduleSpecifier, mapping, aliases, projectRoot) ==
    IF ~EndsWithOldName(moduleSpecifier, mapping.oldName) THEN FALSE
    ELSE LET aliasResolved == resolveAliasImport(moduleSpecifier, aliases, projectRoot)
         IN  IF aliasResolved # NoPath THEN aliasResolved = mapping.oldPath
             ELSE IF StartsWith(moduleSpecifier, ".")
                  THEN PathResolve(PathDirname(importingFile), moduleSpecifier)
                           = mapping.oldPath
             ELSE FALSE

\* mutant: indexOf for lastIndexOf, the first occurrence is replaced
replaceImportPath_First(moduleSpecifier, oldName, newName) ==
    LET firstIndex == IndexOf(moduleSpecifier, oldName)
    IN  IF firstIndex # -1
        THEN Substring(moduleSpecifier, 0, firstIndex) \o newName
                 \o Slice(moduleSpecifier, firstIndex + Len(oldName))
        ELSE moduleSpecifier

\* mutant: the test of lastIndex is inverted, a specifier that holds the old
\* name is returned as it is
replaceImportPath_Inverted(moduleSpecifier, oldName, newName) ==
    LET lastIndex == LastIndexOf(moduleSpecifier, oldName)
    IN  IF lastIndex = -1
        THEN Substring(moduleSpecifier, 0, lastIndex) \o newName
                 \o Slice(moduleSpecifier, lastIndex + Len(oldName))
        ELSE moduleSpecifier

\* mutant: the result of the replacement is dropped, the specifier returned
\* as it came
replaceImportPath_NoChange(moduleSpecifier, oldName, newName) == moduleSpecifier

replaceImportPath(moduleSpecifier, oldName, newName) ==
    LET lastIndex == LastIndexOf(moduleSpecifier, oldName)
    IN  IF lastIndex # -1
        THEN Substring(moduleSpecifier, 0, lastIndex) \o newName
                 \o Slice(moduleSpecifier, lastIndex + Len(oldName))
        ELSE moduleSpecifier

\* One import-like reference of a source file, as ts-morph shows it: a static
\* import declaration, a call import(...) or an export declaration.  text is
\* the source text of the string literal, quotes included ("" for an export
\* declaration without a module specifier); clause is the rest of the
\* declaration (the imported or exported names).
Ref(kind, clause, text) == [kind |-> kind, clause |-> clause, text |-> text]

\* StringLiteral.getLiteralValue / argText.slice(1, -1)
LiteralValue(text) == Substring(text, 1, Len(text) - 1)

\* getModuleSpecifierValue(): undefined when the declaration has no specifier
HasModuleSpecifier(ref) == ref.text # ""

ImportUpdate(file, oldImport, newImport, line) ==
    [file |-> file, oldImport |-> oldImport, newImport |-> newImport, line |-> line]

\* mutant: the loop over the mappings ends at the first mapping whose file
\* name the specifier ends with
RECURSIVE UpdatesForSpecifier_FirstHit(_, _, _, _, _, _)
UpdatesForSpecifier_FirstHit(filePath, moduleSpecifier, line, mappings, aliases, projectRoot) ==
    IF Len(mappings) = 0 THEN <<>>
    ELSE LET mapping == Head(mappings)
         IN  IF EndsWithOldName(moduleSpecifier, mapping.oldName)
             THEN IF matchesImport(filePath, moduleSpecifier, mapping, aliases, projectRoot)
                  THEN <<ImportUpdate(filePath, moduleSpecifier,
                             replaceImportPath(moduleSpecifier, mapping.oldName,
                                               mapping.newName), line)>>
                  ELSE <<>>
             ELSE UpdatesForSpecifier_FirstHit(filePath, moduleSpecifier, line,
                                               Tail(mappings), aliases, projectRoot)

\* the inner loop "for (const mapping of mappings)" for one reference
RECURSIVE UpdatesForSpecifier(_, _, _, _, _, _)
UpdatesForSpecifier(filePath, moduleSpecifier, line, mappings, aliases, projectRoot) ==
    IF Len(mappings) = 0 THEN <<>>
    ELSE LET mapping == Head(mappings)
             rest == UpdatesForSpecifier(filePath, moduleSpecifier, line,
                                         Tail(mappings), aliases, projectRoot)
         IN  IF matchesImport(filePath, moduleSpecifier, mapping, aliases, projectRoot)
             THEN <<ImportUpdate(filePath, moduleSpecifier,
                        replaceImportPath(moduleSpecifier, mapping.oldName, mapping.newName),
                        line)>> \o rest
             ELSE rest

\* the references of one kind in a file, in source order, from line k on
RECURSIVE UpdatesOfKind(_, _, _, _, _, _)
UpdatesOfKind(sourceFile, kind, k, mappings, aliases, projectRoot) ==
    IF k > Len(sourceFile.refs) THEN <<>>
    ELSE LET ref == sourceFile.refs[k]
             rest == UpdatesOfKind(sourceFile, kind, k + 1, mappings, aliases, projectRoot)
         IN  IF ref.kind = kind /\ (kind = "export" => LiteralValue(ref.text) # "")
                /\ HasModuleSpecifier(ref)
             THEN UpdatesForSpecifier(sourceFile.path, LiteralValue(ref.text), k,
                                      mappings, aliases, projectRoot) \o rest
             ELSE rest

UpdatesOfFile(sourceFile, mappings, aliases, projectRoot) ==
    UpdatesOfKind(sourceFile, "import", 1, mappings, aliases, projectRoot)
        \o UpdatesOfKind(sourceFile, "dynamic", 1, mappings, aliases, projectRoot)
        \o UpdatesOfKind(sourceFile, "export", 1, mappings, aliases, projectRoot)

\* project: the sequence of loaded source files [path, refs]
RECURSIVE findImportUpdates(_, _, _, _)
findImportUpdates(project, mappings, aliases, projectRoot) ==
    IF Len(project) = 0 THEN <<>>
    ELSE UpdatesOfFile(Head(project), mappings, aliases, projectRoot)
             \o findImportUpdates(Tail(project), mappings, aliases, projectRoot)

\* updatesByFile.get(filePath): the updates of one file, in order
FileUpdates(updates, filePath) == SelectSeq(updates, LAMBDA u : u.file = filePath)

\* mutant: the first update of the file is taken, its oldImport not compared
FindUpdate_AnyOfFile(fileUpdates, moduleSpecifier) ==
    IF Len(fileUpdates) = 0 THEN <<>> ELSE <<Head(fileUpdates)>>

\* fileUpdates.find((u) => u.oldImport === moduleSpecifier)
FindUpdate(fileUpdates, moduleSpecifier) ==
    LET hits == SelectSeq(fileUpdates, LAMBDA u : u.oldImport = moduleSpecifier)
    IN  IF Len(hits) = 0 THEN <<>> ELSE <<Head(hits)>>

\* mutant: only import declarations are rewritten, import() calls and
\* re-exports are left as they are
ApplyToRef_StaticOnly(ref, fileUpdates) ==
    LET found == FindUpdate(fileUpdates, LiteralValue(ref.text))
        quoteChar == CharAt(ref.text, 0)
    IN  IF ref.kind # "import" \/ Len(found) = 0 THEN ref
        ELSE [ref EXCEPT !.text = quoteChar \o found[1].newImport \o quoteChar]

\* mutant: the argument of import() is rebuilt with single quotes
ApplyToRef_SingleQuote(ref, fileUpdates) ==
    LET found == FindUpdate(fileUpdates, LiteralValue(ref.text))
        quoteChar == IF ref.kind = "dynamic" THEN "'" ELSE CharAt(ref.text, 0)
    IN  IF ~HasModuleSpecifier(ref) THEN ref
        ELSE IF ref.kind = "export" /\ LiteralValue(ref.text) = "" THEN ref
        ELSE IF Len(found) = 0 THEN ref
        ELSE [ref EXCEPT !.text = quoteChar \o found[1].newImport \o quoteChar]

\* mutant: of the export declarations only those with named exports are
\* rewritten, export * is left as it is
ApplyToRef_SkipsExportStar(ref, fileUpdates) ==
    LET found == FindUpdate(fileUpdates, LiteralValue(ref.text))
        quoteChar == CharAt(ref.text, 0)
    IN  IF ~HasModuleSpecifier(ref) THEN ref
        ELSE IF ref.kind = "export" /\ (LiteralValue(ref.text) = "" \/ ref.clause = "*") THEN ref
        ELSE IF Len(found) = 0 THEN ref
        ELSE [ref EXCEPT !.text = quoteChar \o found[1].newImport \o quoteChar]

\* setModuleSpecifier / replaceWithText: the literal keeps its quote character
ApplyToRef(ref, fileUpdates) ==
    LET found == FindUpdate(fileUpdates, LiteralValue(ref.text))
        quoteChar == CharAt(ref.text, 0)
    IN  IF ~HasModuleSpecifier(ref) THEN ref
        ELSE IF ref.kind = "export" /\ LiteralValue(ref.text) = "" THEN ref
        ELSE IF Len(found) = 0 THEN ref
        ELSE [ref EXCEPT !.text = quoteChar \o found[1].newImport \o quoteChar]

ApplyToFile(sourceFile, updates) ==
    LET fileUpdates == FileUpdates(updates, sourceFile.path)
    IN  IF Len(fileUpdates) = 0 THEN sourceFile
        ELSE [sourceFile EXCEPT !.refs =
                 [k \in 1..Len(sourceFile.refs) |-> ApplyToRef(sourceFile.refs[k], fileUpdates)]]

applyImportUpdates(project, updates) ==
    [n \in 1..Len(project) |-> ApplyToFile(project[n], updates)]

(***************************************************************************)
(* api.ts and commands/rename-diff.ts: the plan, the project and the move  *)
(***************************************************************************)
\* The disk is the sequence of its files [path, refs] in the order glob
\* lists them; the content of a file is the sequence of its references.
File(path, refs) == [path |-> path, refs |-> refs]

RECURSIVE IndexOfPath(_, _, _)
IndexOfPath(files, path, k) ==
    IF k > Len(files) THEN 0
    ELSE IF files[k].path = path THEN k ELSE IndexOfPath(files, path, k + 1)

ExistsSync(files, path) == IndexOfPath(files, path, 1) # 0

DEFAULT_EXTENSIONS == <<".ts", ".vue", ".tsx", ".js", ".jsx">>

DEFAULT_IGNORE == <<"/node_modules/", "/dist/", "/.git/">>

IsIgnored(path) ==
    \E k \in 1..Len(DEFAULT_IGNORE) : Occurrences(path, DEFAULT_IGNORE[k]) # {}

\* glob('**/*.{exts}', { cwd, absolute: true, ignore })
Glob(files, cwd, exts) ==
    SelectSeq(files, LAMBDA f :
        /\ StartsWith(f.path, cwd \o "/")
        /\ \E k \in 1..Len(exts) : PathExtname(f.path) = exts[k]
        /\ ~IsIgnored(f.path))

MappingOf(filePath) ==
    LET fileName == PathBasename(filePath)
        newName == toPascalCase(fileName)
    IN  Mapping(filePath, PathJoin(PathDirname(filePath), newName), fileName, newName)

\* mutant: every candidate yields an operation, isKebabCase is not asked
RECURSIVE KebabMappings_Unfiltered(_)
KebabMappings_Unfiltered(paths) ==
    IF Len(paths) = 0 THEN <<>>
    ELSE <<MappingOf(Head(paths))>> \o KebabMappings_Unfiltered(Tail(paths))

RECURSIVE KebabMappings(_)
KebabMappings(paths) ==
    IF Len(paths) = 0 THEN <<>>
    ELSE IF isKebabCase(PathBasename(Head(paths)))
         THEN <<MappingOf(Head(paths))>> \o KebabMappings(Tail(paths))
         ELSE KebabMappings(Tail(paths))

PathsOf(files) == [k \in 1..Len(files) |-> files[k].path]

findKebabCaseFiles(files, absoluteTargetDir) ==
    KebabMappings(PathsOf(Glob(files, absoluteTargetDir, <<".vue">>)))

createMappingsFromFiles(paths, files) ==
    KebabMappings(SelectSeq(paths, LAMBDA p : ExistsSync(files, p)))

\* mutant: the list is kept as it is, duplicates included
Dedupe_KeepsAll(paths, seen) == paths

\* [...new Set(files)]: the first occurrence of each path, in order
RECURSIVE Dedupe(_, _)
Dedupe(paths, seen) ==
    IF Len(paths) = 0 THEN <<>>
    ELSE IF Head(paths) \in seen THEN Dedupe(Tail(paths), seen)
         ELSE <<Head(paths)>> \o Dedupe(Tail(paths), seen \cup {Head(paths)})

\* mutant: the exception of addSourceFileAtPath is not caught in the loop,
\* the files after the first that cannot be parsed are not added
RECURSIVE AddUntilThrow(_, _)
AddUntilThrow(files, unparsed) ==
    IF Len(files) = 0 \/ Head(files).path \in unparsed THEN <<>>
    ELSE <<Head(files)>> \o AddUntilThrow(Tail(files), unparsed)

loadProject_StopsAtFailure(files, scanDir, unparsed) ==
    AddUntilThrow(Glob(files, scanDir, DEFAULT_EXTENSIONS), unparsed)

\* loadProject: every globbed file is added unless adding it throws
loadProject(files, scanDir, unreadable) ==
    SelectSeq(Glob(files, scanDir, DEFAULT_EXTENSIONS), LAMBDA f : f.path \notin unreadable)

\* project.save(): every source file of the project the run has changed is
\* written back at its path
RECURSIVE SaveProject(_, _, _)
SaveProject(files, project, k) ==
    IF k > Len(project) THEN files
    ELSE LET at == IndexOfPath(files, project[k].path, 1)
         IN  IF at # 0 /\ files[at].refs # project[k].refs
             THEN SaveProject([files EXCEPT ![at].refs = project[k].refs], project, k + 1)
             ELSE SaveProject(files, project, k + 1)

ChangedPaths(files, project) ==
    PathsOf(SelectSeq(project, LAMBDA sf :
        LET at == IndexOfPath(files, sf.path, 1) IN at # 0 /\ files[at].refs # sf.refs))

\* rename(2) / git mv: the file at oldPath now is at newPath; a file that was
\* at newPath is gone
RenameOnDisk(files, oldPath, newPath) ==
    LET kept == SelectSeq(files, LAMBDA f : f.path # newPath)
    IN  [k \in 1..Len(kept) |->
            IF kept[k].path = oldPath THEN [kept[k] EXCEPT !.path = newPath] ELSE kept[k]]

(***************************************************************************)
(* The inputs of a run: a project under /p with its vite config at /p      *)
(***************************************************************************)
ProjectRoot == "/p"

SrcDir == "/p/src"

ButtonVue == "/p/src/components/my-button.vue"

SharedButtonVue == "/p/src/shared/my-button.vue"

PascalButtonVue == "/p/src/components/MyButton.vue"

DigitVueA == "/p/src/components/a-1-b.vue"

DigitVueB == "/p/src/components/a1-b.vue"

IndexTs == "/p/src/components/index.ts"

HomePageVue == "/p/src/pages/home-page.vue"

DeletedVue == "/p/src/components/old-card.vue"

\* the files on disk: the .vue files, the file that holds the references,
\* and the directory the rename is asked for
Layouts ==
    { [vue |-> <<ButtonVue>>, importer |-> IndexTs, targetDir |-> SrcDir],
      [vue |-> <<ButtonVue, SharedButtonVue>>, importer |-> IndexTs, targetDir |-> SrcDir],
      [vue |-> <<ButtonVue, SharedButtonVue>>, importer |-> HomePageVue, targetDir |-> SrcDir],
      [vue |-> <<ButtonVue, SharedButtonVue>>, importer |-> IndexTs,
       targetDir |-> "/p/src/shared"],
      [vue |-> <<ButtonVue, PascalButtonVue>>, importer |-> IndexTs, targetDir |-> SrcDir],
      [vue |-> <<DigitVueA, DigitVueB>>, importer |-> IndexTs, targetDir |-> SrcDir] }

\* the references an importing file may hold, after the test fixtures
RefCandidates ==
    << Ref("import", "MyButton", "'./my-button.vue'"),
       Ref("import", "MyButton", "'../components/my-button.vue'"),
       Ref("import", "SharedButton", "'@/shared/my-button.vue'"),
       Ref("dynamic", "", "\"@/components/my-button.vue\""),
       Ref("export", "{ default as MyButton }", "'./my-button'"),
       Ref("import", "NavMenu", "'~/components/my-button'"),
       Ref("export", "*", "'~/components/a-1-b.vue'"),
       Ref("export", "{ helper }", "") >>

\* bound: the number of references in the importing file
MaxRefs == 2

\* the contents of the importing file: up to MaxRefs different candidates, in
\* the order of RefCandidates
RefSeqs ==
    LET Idx == 1..Len(RefCandidates)
        Ascending(q) == \A k \in 1..(Len(q) - 1) : q[k] < q[k + 1]
    IN  { [k \in 1..Len(q) |-> RefCandidates[q[k]]] :
            q \in { q \in UNION { [1..n -> Idx] : n \in 0..MaxRefs } : Ascending(q) } }

VueFiles(layout) == [k \in 1..Len(layout.vue) |-> File(layout.vue[k], <<>>)]

\* what git lists for rename:diff: every .vue file, one deleted since, and
\* the files once more (several git sources list the same file)
GitList(layout) == layout.vue \o <<DeletedVue>> \o layout.vue

Options ==
    [entry : {"api"}, dryRun : BOOLEAN, useGitMv : BOOLEAN, report : {FALSE}]
        \cup [entry : {"diff"}, dryRun : BOOLEAN, useGitMv : {TRUE}, report : BOOLEAN]

VARIABLES
    disk,           \* the files on disk
    disk0,          \* the files on disk when the run started
    opts,           \* the options of the run
    targetDir,      \* absoluteTargetDir of renameVueFiles
    gitFiles,       \* the paths git lists (rename:diff)
    aliases,        \* the resolved alias table
    unreadable,     \* the files addSourceFileAtPath throws on
    pc,             \* where the run is
    mappings,       \* the rename plan
    project,        \* the loaded ts-morph project
    importUpdates,  \* the result of findImportUpdates
    written,        \* the paths project.save() has written
    moves,          \* for each operation attempted so far, the moves tried
    reports,        \* the HTML reports written
    call,           \* the arguments of a call of the matcher on one reference
    ret             \* what that call returned

vars == <<disk, disk0, opts, targetDir, gitFiles, aliases, unreadable, pc, mappings,
          project, importUpdates, written, moves, reports, call, ret>>

inputs == <<disk0, opts, targetDir, gitFiles, aliases, unreadable, call, ret>>

given == <<disk0, opts, targetDir, gitFiles, aliases, unreadable, call>>

Init ==
    /\ opts \in Options
    /\ \E layout \in Layouts, refs \in RefSeqs :
          /\ disk = VueFiles(layout) \o <<File(layout.importer, refs)>>
          /\ targetDir = layout.targetDir
          /\ gitFiles = IF opts.entry = "diff" THEN GitList(layout) ELSE <<>>
    /\ disk0 = disk
    /\ aliases = DEFAULT_ALIASES
    /\ unreadable = {}
    /\ pc = "start"
    /\ mappings = <<>>
    /\ project = <<>>
    /\ importUpdates = <<>>
    /\ written = <<>>
    /\ moves = <<>>
    /\ reports = 0
    /\ call = <<>>
    /\ ret = <<>>

\* renameVueFiles scans importScanDir (here the whole of src) and rename:diff
\* the project root
ScanDir == IF opts.entry = "api" THEN SrcDir ELSE ProjectRoot

\* countFileLines / getFileSize of a file: its declarations, their characters
RECURSIVE FileSize(_)
FileSize(refs) ==
    IF Len(refs) = 0 THEN 0
    ELSE Len(Head(refs).clause) + Len(Head(refs).text) + FileSize(Tail(refs))

collectFileStats(plan, files) ==
    [k \in 1..Len(plan) |->
        LET f == files[IndexOfPath(files, plan[k].oldPath, 1)]
        IN  [oldPath |-> plan[k].oldPath, newPath |-> plan[k].newPath,
             oldName |-> plan[k].oldName, newName |-> plan[k].newName,
             lines |-> Len(f.refs), size |-> FileSize(f.refs)]]

RECURSIVE SumOf(_, _)
SumOf(fileStats, field) ==
    IF Len(fileStats) = 0 THEN 0
    ELSE Head(fileStats)[field] + SumOf(Tail(fileStats), field)

\* the return of renameVueFiles when the plan is empty
EmptyResult ==
    [mappings |-> <<>>, fileStats |-> <<>>, importUpdates |-> <<>>,
     summary |-> [totalFiles |-> 0, totalLines |-> 0, totalSize |-> 0, totalImports |-> 0],
     dryRun |-> opts.dryRun]

\* the return of renameVueFiles at the end; the statistics were collected
\* at step 2, from the files as they were
RunResult ==
    LET fileStats == collectFileStats(mappings, disk0)
    IN  [mappings |-> mappings, fileStats |-> fileStats, importUpdates |-> importUpdates,
         summary |-> [totalFiles |-> Len(mappings), totalLines |-> SumOf(fileStats, "lines"),
                      totalSize |-> SumOf(fileStats, "size"),
                      totalImports |-> Len(importUpdates)],
         dryRun |-> opts.dryRun]

\* mutant: the run goes on to load the project when the plan is empty
Plan_NoEarlyReturn ==
    /\ pc = "start"
    /\ mappings' = IF opts.entry = "api"
                   THEN findKebabCaseFiles(disk, targetDir)
                   ELSE createMappingsFromFiles(Dedupe(gitFiles, {}), disk)
    /\ pc' = "planned"
    /\ UNCHANGED <<inputs, disk, project, importUpdates, written, moves, reports>>

\* Step 1: the plan; an empty plan ends the run (renameVueFiles returns its
\* empty result, the commands return nothing)
Plan ==
    /\ pc = "start"
    /\ mappings' = IF opts.entry = "api"
                   THEN findKebabCaseFiles(disk, targetDir)
                   ELSE createMappingsFromFiles(Dedupe(gitFiles, {}), disk)
    /\ pc' = IF Len(mappings') = 0 THEN "done" ELSE "planned"
    /\ ret' = IF Len(mappings') = 0 /\ opts.entry = "api" THEN EmptyResult ELSE ret
    /\ UNCHANGED <<given, disk, project, importUpdates, written, moves, reports>>

\* Step 3: load the project
LoadProject ==
    /\ pc = "planned"
    /\ project' = loadProject(disk, ScanDir, unreadable)
    /\ pc' = "loaded"
    /\ UNCHANGED <<inputs, disk, mappings, importUpdates, written, moves, reports>>

\* findImportUpdates
FindUpdates ==
    /\ pc = "loaded"
    /\ importUpdates' = findImportUpdates(project, mappings, aliases, ProjectRoot)
    /\ pc' = "resolved"
    /\ UNCHANGED <<inputs, disk, mappings, project, written, moves, reports>>

\* Step 4, dryRun: nothing is applied; the result is returned (rename:diff
\* may write its preview report)
DryRunEnd ==
    /\ pc = "resolved"
    /\ opts.dryRun
    /\ pc' = "done"
    /\ reports' = IF opts.report THEN reports + 1 ELSE reports
    /\ ret' = IF opts.entry = "api" THEN RunResult ELSE ret
    /\ UNCHANGED <<given, disk, mappings, project, importUpdates, written, moves>>

\* mutant: the changes are applied without looking at dryRun
ApplyAndSave_IgnoresDryRun ==
    /\ pc = "resolved"
    /\ project' = applyImportUpdates(project, importUpdates)
    /\ written' = written \o ChangedPaths(disk, project')
    /\ disk' = SaveProject(disk, project', 1)
    /\ pc' = "moving"
    /\ UNCHANGED <<inputs, mappings, importUpdates, moves, reports>>

\* mutant: the changes are applied in memory and the files moved before any
\* save
ApplyAndSave_SkipsSave ==
    /\ pc = "resolved"
    /\ ~opts.dryRun
    /\ project' = applyImportUpdates(project, importUpdates)
    /\ pc' = "moving"
    /\ UNCHANGED <<inputs, disk, mappings, importUpdates, written, moves, reports>>

\* Step 4, if (!dryRun): applyImportUpdates, then project.save()
ApplyAndSave ==
    /\ pc = "resolved"
    /\ ~opts.dryRun
    /\ project' = applyImportUpdates(project, importUpdates)
    /\ written' = written \o ChangedPaths(disk, project')
    /\ disk' = SaveProject(disk, project', 1)
    /\ pc' = "moving"
    /\ UNCHANGED <<inputs, mappings, importUpdates, moves, reports>>

NextMapping == mappings[Len(moves) + 1]

TriesGitMv == opts.entry = "diff" \/ opts.useGitMv

\* git mv moves a file that exists to a path that does not
GitMvCan(mapping) == ExistsSync(disk, mapping.oldPath) /\ ~ExistsSync(disk, mapping.newPath)

\* renameFile (renameVueFiles) and the body of the loop of renameFiles
\* (rename:diff): git mv first when it is used, fs.renameSync when git mv is
\* not used or has failed; what fs.renameSync throws leaves the function
renameFile_NoReturn(files, oldPath, newPath, useGitMv, gitMvOk, renameSyncOk) ==
    LET git == [by |-> "git", ok |-> gitMvOk]
        moved == RenameOnDisk(files, oldPath, newPath)
    IN  IF useGitMv /\ gitMvOk
        THEN [files |-> moved, attempts |-> <<git, [by |-> "fs", ok |-> FALSE]>>,
              threw |-> TRUE]
        ELSE [files |-> IF renameSyncOk THEN moved ELSE files,
              attempts |-> (IF useGitMv THEN <<git>> ELSE <<>>)
                              \o <<[by |-> "fs", ok |-> renameSyncOk]>>,
              threw |-> ~renameSyncOk]

renameFile(files, oldPath, newPath, useGitMv, gitMvOk, renameSyncOk) ==
    LET git == [by |-> "git", ok |-> gitMvOk]
        moved == RenameOnDisk(files, oldPath, newPath)
    IN  IF useGitMv /\ gitMvOk
        THEN [files |-> moved, attempts |-> <<git>>, threw |-> FALSE]
        ELSE [files |-> IF renameSyncOk THEN moved ELSE files,
              attempts |-> (IF useGitMv THEN <<git>> ELSE <<>>)
                              \o <<[by |-> "fs", ok |-> renameSyncOk]>>,
              threw |-> ~renameSyncOk]

\* one turn of the loop over the mappings
Move(gitMvOk, renameSyncOk) ==
    LET out == renameFile(disk, NextMapping.oldPath, NextMapping.newPath, TriesGitMv,
                          gitMvOk, renameSyncOk)
    IN  /\ disk' = out.files
        /\ moves' = Append(moves, out.attempts)
        /\ pc' = IF out.threw THEN "threw" ELSE pc
        /\ UNCHANGED <<inputs, mappings, project, importUpdates, written, reports>>

\* git mv succeeds
MoveGit ==
    /\ pc = "moving" /\ Len(moves) < Len(mappings)
    /\ TriesGitMv /\ GitMvCan(NextMapping)
    /\ Move(TRUE, TRUE)

\* git mv is not used or fails, fs.renameSync succeeds (it replaces a file
\* at newPath)
MoveFs ==
    /\ pc = "moving" /\ Len(moves) < Len(mappings)
    /\ ExistsSync(disk, NextMapping.oldPath)
    /\ Move(FALSE, TRUE)

\* git mv is not used or fails and fs.renameSync throws: the exception leaves
\* the loop and the function
MoveThrows ==
    /\ pc = "moving" /\ Len(moves) < Len(mappings)
    /\ Move(FALSE, FALSE)

\* the loop is over: the result is returned (rename:diff may write its report)
Finish ==
    /\ pc = "moving" /\ Len(moves) = Len(mappings)
    /\ pc' = "done"
    /\ reports' = IF opts.report THEN reports + 1 ELSE reports
    /\ ret' = IF opts.entry = "api" THEN RunResult ELSE ret
    /\ UNCHANGED <<given, disk, mappings, project, importUpdates, written, moves>>

Next ==
    \/ Plan
    \/ LoadProject
    \/ FindUpdates
    \/ DryRunEnd
    \/ ApplyAndSave
    \/ MoveGit
    \/ MoveFs
    \/ MoveThrows
    \/ Finish

Spec == Init /\ [][Next]_vars

(***************************************************************************)
(* Runs on a project some files of which cannot be parsed                  *)
(***************************************************************************)
IndexTsContents ==
    { <<>>,
      <<Ref("import", "MyButton", "'./my-button.vue'")>>,
      <<Ref("import", "MyButton", "'./my-button.vue'"),
        Ref("dynamic", "", "\"@/components/my-button.vue\"")>> }

HomePageContents ==
    { <<>>,
      <<Ref("import", "MyButton", "'../components/my-button.vue'")>>,
      <<Ref("export", "*", "'@/components/my-button.vue'")>> }

InitUnparsed ==
    /\ opts \in Options
    /\ \E a \in IndexTsContents, b \in HomePageContents :
          disk = <<File(ButtonVue, <<>>), File(IndexTs, a), File(HomePageVue, b)>>
    /\ targetDir = SrcDir
    /\ gitFiles = IF opts.entry = "diff"
                  THEN <<ButtonVue, HomePageVue, DeletedVue, ButtonVue>> ELSE <<>>
    /\ disk0 = disk
    /\ aliases = DEFAULT_ALIASES
    /\ unreadable \in SUBSET {ButtonVue, IndexTs, HomePageVue}
    /\ pc = "start"
    /\ mappings = <<>>
    /\ project = <<>>
    /\ importUpdates = <<>>
    /\ written = <<>>
    /\ moves = <<>>
    /\ reports = 0
    /\ call = <<>>
    /\ ret = <<>>

SpecUnparsed == InitUnparsed /\ [][Next]_vars

(***************************************************************************)
(* Runs on directories that hold .vue files of every kind of name          *)
(***************************************************************************)
PlanNames ==
    { "my-button.vue", "button.vue", "MyButton.vue", "my-Button.vue", "a-1-b.vue",
      "my_button.vue", "-x.vue", "my-button.spec.vue" }

PlanDisks ==
    { <<File(SrcDir \o "/components/" \o a, <<>>)>> : a \in PlanNames }
        \cup UNION { { <<File(SrcDir \o "/components/" \o a, <<>>),
                          File(SrcDir \o "/components/" \o b, <<>>)>> :
                          b \in PlanNames \ {a} } : a \in PlanNames }

InitPlan ==
    /\ opts \in Options
    /\ disk \in PlanDisks
    /\ targetDir = SrcDir
    /\ gitFiles = IF opts.entry = "diff" THEN PathsOf(disk) \o <<DeletedVue>> ELSE <<>>
    /\ disk0 = disk
    /\ aliases = DEFAULT_ALIASES
    /\ unreadable = {}
    /\ pc = "start"
    /\ mappings = <<>>
    /\ project = <<>>
    /\ importUpdates = <<>>
    /\ written = <<>>
    /\ moves = <<>>
    /\ reports = 0
    /\ call = <<>>
    /\ ret = <<>>

SpecPlan == InitPlan /\ [][Next]_vars

(***************************************************************************)
(* The matcher and the rewriter on one reference: the body of the loops of *)
(* findImportUpdates, and a second round on the rewritten specifier        *)
(***************************************************************************)
AppVue == "/p/src/App.vue"

MatchFiles == {IndexTs, HomePageVue, AppVue}

MatchPrefixes ==
    { "./", "../components/", "../shared/", "@/components/", "@/shared/",
      "~/components/", "@components/", "@", "", "/p/src/components/",
      "./my-button.vue/../", "@/components/my-button.vue/../../shared/" }

MatchNames == {"my-button.vue", "my-button", "MyButton.vue", "xmy-button.vue", "a1-b.vue"}

MatchSpecifiers == {pre \o name : pre \in MatchPrefixes, name \in MatchNames}

MatchPlans ==
    { <<MappingOf(ButtonVue), MappingOf(SharedButtonVue)>>,
      <<MappingOf(SharedButtonVue), MappingOf(ButtonVue)>>,
      <<MappingOf(SharedButtonVue)>>,
      <<MappingOf(DigitVueA), MappingOf(DigitVueB)>> }

AliasTables ==
    { DEFAULT_ALIASES,
      DEFAULT_ALIASES \o <<[alias |-> "@components", aliasPath |-> "src/components"]>>,
      <<[alias |-> "@/", aliasPath |-> "src"]>>,
      <<[alias |-> "@", aliasPath |-> "lib"],
        [alias |-> "@/components", aliasPath |-> "src/components"]>>,
      <<[alias |-> "@/components", aliasPath |-> "src/components"],
        [alias |-> "@", aliasPath |-> "lib"]>>,
      <<[alias |-> ".", aliasPath |-> "src/shared"], [alias |-> "@", aliasPath |-> "src"]>> }

InitMatch ==
    /\ call \in [importingFile : MatchFiles, moduleSpecifier : MatchSpecifiers,
                 mappings : MatchPlans, aliases : AliasTables]
    /\ ret = <<>>
    /\ pc = "call"
    /\ disk = <<>> /\ disk0 = <<>> /\ targetDir = SrcDir /\ gitFiles = <<>>
    /\ opts = [entry |-> "api", dryRun |-> TRUE, useGitMv |-> FALSE, report |-> FALSE]
    /\ aliases = call.aliases
    /\ unreadable = {}
    /\ mappings = call.mappings
    /\ project = <<>> /\ importUpdates = <<>> /\ written = <<>> /\ moves = <<>>
    /\ reports = 0

matchOnly == <<disk, disk0, opts, targetDir, gitFiles, aliases, unreadable, mappings,
               project, importUpdates, written, moves, reports, call>>

\* for (const mapping of mappings) if (matchesImport(...)) updates.push(...)
MatchReference ==
    /\ pc = "call"
    /\ ret' = [ matched |-> [k \in 1..Len(call.mappings) |->
                    matchesImport(call.importingFile, call.moduleSpecifier,
                                  call.mappings[k], call.aliases, ProjectRoot)],
                updates |-> UpdatesForSpecifier(call.importingFile, call.moduleSpecifier, 1,
                                                call.mappings, call.aliases, ProjectRoot),
                again |-> <<>> ]
    /\ pc' = "matched"
    /\ UNCHANGED matchOnly

\* the matcher once more, on the specifier rewritten for each operation that
\* matched, against that same operation
MatchRewritten ==
    /\ pc = "matched"
    /\ ret' = [ret EXCEPT !.again =
                  [k \in 1..Len(call.mappings) |->
                      ret.matched[k] /\
                      matchesImport(call.importingFile,
                          replaceImportPath(call.moduleSpecifier, call.mappings[k].oldName,
                                            call.mappings[k].newName),
                          call.mappings[k], call.aliases, ProjectRoot)]]
    /\ pc' = "rematched"
    /\ UNCHANGED matchOnly

NextMatch ==
    \/ MatchReference
    \/ MatchRewritten

SpecMatch == InitMatch /\ [][NextMatch]_vars

(***************************************************************************)
(* findImportUpdates and applyImportUpdates on one source file that holds  *)
(* references of every kind and quote character                            *)
(***************************************************************************)
\* the quote character of a template literal without substitutions; "^"
\* stands for the grave accent, which a TLA+ string cannot hold
Backtick == "^"

RewriteSpecifiers ==
    {"./my-button.vue", "@/components/my-button.vue", "@/shared/my-button.vue", "./my-button"}

\* the declarations and calls of a source file: import X from S, import(S),
\* export * from S, export { default as X } from S, each with the quote
\* characters its syntax allows, and export declarations without a specifier
RewriteRefs ==
    {Ref("import", "MyButton", q \o v \o q) : q \in {"'", "\""}, v \in RewriteSpecifiers}
        \cup {Ref("dynamic", "", q \o v \o q) :
                 q \in {"'", "\"", Backtick}, v \in RewriteSpecifiers}
        \cup {Ref("export", c, q \o v \o q) :
                 c \in {"*", "{ default as X }"}, q \in {"'", "\""}, v \in RewriteSpecifiers}
        \cup {Ref("export", "{ helper }", ""), Ref("export", "{ }", "''")}

\* the references that follow the first one in the source file
RewriteCompanions ==
    { Ref("import", "MyButton", "'./my-button.vue'"),
      Ref("dynamic", "", "\"@/shared/my-button.vue\""),
      Ref("export", "{ helper }", "") }

\* the contents of the source file: up to MaxRefs references, any reference
\* first
RewriteFiles ==
    { <<first>> \o rest :
        first \in RewriteRefs,
        rest \in UNION { [1..n -> RewriteCompanions] : n \in 0..(MaxRefs - 1) } }

InitRewrite ==
    /\ \E refs \in RewriteFiles : project = <<File(IndexTs, refs)>>
    /\ disk0 = project
    /\ mappings = <<MappingOf(SharedButtonVue), MappingOf(ButtonVue)>>
    /\ aliases = DEFAULT_ALIASES
    /\ pc = "find"
    /\ importUpdates = <<>>
    /\ disk = <<>> /\ targetDir = SrcDir /\ gitFiles = <<>>
    /\ opts = [entry |-> "api", dryRun |-> FALSE, useGitMv |-> FALSE, report |-> FALSE]
    /\ unreadable = {}
    /\ written = <<>> /\ moves = <<>> /\ reports = 0
    /\ call = <<>> /\ ret = <<>>

rewriteOnly == <<disk, disk0, opts, targetDir, gitFiles, aliases, unreadable, mappings,
                 written, moves, reports, call, ret>>

RewriteFind ==
    /\ pc = "find"
    /\ importUpdates' = findImportUpdates(project, mappings, aliases, ProjectRoot)
    /\ pc' = "apply"
    /\ UNCHANGED <<rewriteOnly, project>>

RewriteApply ==
    /\ pc = "apply"
    /\ project' = applyImportUpdates(project, importUpdates)
    /\ pc' = "applied"
    /\ UNCHANGED <<rewriteOnly, importUpdates>>

\* applyImportUpdates once more with the same updates
RewriteApplyAgain ==
    /\ pc = "applied"
    /\ project' = applyImportUpdates(project, importUpdates)
    /\ pc' = "reapplied"
    /\ UNCHANGED <<rewriteOnly, importUpdates>>

NextRewrite ==
    \/ RewriteFind
    \/ RewriteApply
    \/ RewriteApplyAgain

SpecRewrite == InitRewrite /\ [][NextRewrite]_vars

(***************************************************************************)
(* applyImportUpdates called with any list of updates: updates whose       *)
(* oldImport is not in their file, updates of files that are not loaded    *)
(***************************************************************************)
ApplyRefs ==
    { Ref("import", "MyButton", "'./my-button.vue'"),
      Ref("dynamic", "", "\"@/shared/my-button.vue\""),
      Ref("export", "*", "'./MyButton.vue'"),
      Ref("export", "{ helper }", "") }

ApplyRefSeqs == UNION { [1..n -> ApplyRefs] : n \in 0..2 }

\* the loaded source files
ApplyProjects ==
    { <<File(IndexTs, refs)>> : refs \in ApplyRefSeqs }
        \cup { <<File(IndexTs, refs), File(HomePageVue, more)>> :
                 refs \in ApplyRefSeqs,
                 more \in { <<>>, <<Ref("import", "MyButton", "'./my-button.vue'")>>,
                            <<Ref("import", "X", "'../components/my-button.vue'")>> } }

ApplyUpdates ==
    { ImportUpdate(IndexTs, "./my-button.vue", "./MyButton.vue", 1),
      ImportUpdate(IndexTs, "@/shared/my-button.vue", "@/shared/MyButton.vue", 2),
      ImportUpdate(IndexTs, "./old-card.vue", "./OldCard.vue", 1),
      ImportUpdate(HomePageVue, "./my-button.vue", "./MyButton.vue", 1),
      ImportUpdate(AppVue, "./my-button.vue", "./MyButton.vue", 1) }

\* bound: the number of updates in the list
MaxUpdates == 3

InitApply ==
    /\ project \in ApplyProjects
    /\ disk0 = project
    /\ importUpdates \in UNION { [1..n -> ApplyUpdates] : n \in 0..MaxUpdates }
    /\ pc = "apply"
    /\ mappings = <<>>
    /\ aliases = DEFAULT_ALIASES
    /\ disk = <<>> /\ targetDir = SrcDir /\ gitFiles = <<>>
    /\ opts = [entry |-> "api", dryRun |-> FALSE, useGitMv |-> FALSE, report |-> FALSE]
    /\ unreadable = {}
    /\ written = <<>> /\ moves = <<>> /\ reports = 0
    /\ call = <<>> /\ ret = <<>>

ApplyOnce ==
    /\ pc = "apply"
    /\ project' = applyImportUpdates(project, importUpdates)
    /\ pc' = "applied"
    /\ UNCHANGED <<rewriteOnly, importUpdates>>

\* the same list of updates applied to the result
ApplyTwice ==
    /\ pc = "applied"
    /\ project' = applyImportUpdates(project, importUpdates)
    /\ pc' = "reapplied"
    /\ UNCHANGED <<rewriteOnly, importUpdates>>

NextApply ==
    \/ ApplyOnce
    \/ ApplyTwice

SpecApply == InitApply /\ [][NextApply]_vars

(***************************************************************************)
(* isKebabCase and toPascalCase on one file name, and once more on the     *)
(* name toPascalCase returned                                              *)
(***************************************************************************)
NameChars == {"a", "Z", "1", "-", "."}

\* bound: the length of the file names built from NameChars
MaxNameLen == 4

RECURSIVE NamesOfLen(_)
NamesOfLen(n) ==
    IF n = 0 THEN {""} ELSE {c \o rest : c \in NameChars, rest \in NamesOfLen(n - 1)}

FileNames ==
    UNION {NamesOfLen(n) : n \in 0..MaxNameLen}
        \cup {"my-component.vue", "my-button.vue", "simple-card.vue", "a-1-b.vue", "MyButton.vue"}

InitNaming ==
    /\ call \in [name : FileNames]
    /\ ret = <<>>
    /\ pc = "name"
    /\ disk = <<>> /\ disk0 = <<>> /\ targetDir = SrcDir /\ gitFiles = <<>>
    /\ opts = [entry |-> "api", dryRun |-> TRUE, useGitMv |-> FALSE, report |-> FALSE]
    /\ aliases = DEFAULT_ALIASES
    /\ unreadable = {}
    /\ mappings = <<>> /\ project = <<>> /\ importUpdates = <<>>
    /\ written = <<>> /\ moves = <<>> /\ reports = 0

\* if (isKebabCase(fileName)) { const newName = toPascalCase(fileName) ... }
Convert ==
    /\ pc = "name"
    /\ ret' = [kebab |-> isKebabCase(call.name), pascal |-> toPascalCase(call.name)]
    /\ pc' = "converted"
    /\ UNCHANGED matchOnly

\* a later run meets the file under the name it was given
ConvertAgain ==
    /\ pc = "converted"
    /\ ret' = [kebab |-> ret.kebab, pascal |-> ret.pascal,
               again |-> [kebab |-> isKebabCase(ret.pascal),
                          pascal |-> toPascalCase(ret.pascal)]]
    /\ pc' = "reconverted"
    /\ UNCHANGED matchOnly

NextNaming ==
    \/ Convert
    \/ ConvertAgain

SpecNaming == InitNaming /\ [][NextNaming]_vars

(***************************************************************************)
(* utils/vite-config.ts                                                    *)
(***************************************************************************)
VITE_CONFIG_NAMES == <<"vite.config.ts", "vite.config.js", "vite.config.mts", "vite.config.mjs">>

\* the first of the config names that exists in dir, or null
RECURSIVE FirstConfigIn(_, _, _)
FirstConfigIn(files, dir, k) ==
    IF k > Len(VITE_CONFIG_NAMES) THEN NoPath
    ELSE LET configPath == PathJoin(dir, VITE_CONFIG_NAMES[k])
         IN  IF ExistsSync(files, configPath) THEN configPath
             ELSE FirstConfigIn(files, dir, k + 1)

findViteConfigInDir(files, dir) == FirstConfigIn(files, dir, 1)

\* path.parse(currentDir).root of an absolute POSIX path
PathRoot(p) == "/"

\* the while loop of findViteConfig and the check of the root after it
RECURSIVE SearchUp(_, _, _)
SearchUp(files, currentDir, root) ==
    IF currentDir = root THEN findViteConfigInDir(files, root)
    ELSE LET configPath == findViteConfigInDir(files, currentDir)
         IN  IF configPath # NoPath THEN configPath
             ELSE SearchUp(files, PathDirname(currentDir), root)

findViteConfig(files, cwd, startDir) ==
    LET currentDir == PathResolve(cwd, startDir)
    IN  SearchUp(files, currentDir, PathRoot(currentDir))

\* an alias declaration of a vite config: its style is the pattern of
\* parseAliasesFromConfig that matches it
AliasDecl(style, alias, relativePath) ==
    [style |-> style, alias |-> alias, relativePath |-> relativePath]

\* aliases[alias], NoPath when the key is absent
RECURSIVE AliasGet(_, _)
AliasGet(table, alias) ==
    IF Len(table) = 0 THEN NoPath
    ELSE IF Head(table).alias = alias THEN Head(table).aliasPath
         ELSE AliasGet(Tail(table), alias)

\* aliases[alias] = value: a present key keeps its place, a new key goes last
AliasSet(table, alias, value) ==
    IF AliasGet(table, alias) = NoPath
    THEN Append(table, [alias |-> alias, aliasPath |-> value])
    ELSE [k \in 1..Len(table) |->
            IF table[k].alias = alias THEN [alias |-> alias, aliasPath |-> value]
            ELSE table[k]]

\* one while loop of parseAliasesFromConfig: the object pattern assigns
\* always, the other patterns only if (!aliases[alias])
RECURSIVE ParsePattern(_, _, _)
ParsePattern(content, style, acc) ==
    IF Len(content) = 0 THEN acc
    ELSE LET match == Head(content)
             next == IF match.style # style THEN acc
                     ELSE IF style = "object" \/ AliasGet(acc, match.alias) = NoPath
                          THEN AliasSet(acc, match.alias, match.relativePath)
                          ELSE acc
         IN  ParsePattern(Tail(content), style, next)

parseAliasesFromConfig(content) ==
    ParsePattern(content, "fileURL",
        ParsePattern(content, "array",
            ParsePattern(content, "simple",
                ParsePattern(content, "object", <<>>))))

NullAliases == [null |-> TRUE, aliases |-> <<>>]

loadViteAliases(files, unread, content, projectRoot) ==
    LET configPath == findViteConfig(files, projectRoot, projectRoot)
        parsed == parseAliasesFromConfig(content)
    IN  IF configPath = NoPath THEN NullAliases
        ELSE IF configPath \in unread THEN NullAliases
        ELSE IF Len(parsed) = 0 THEN NullAliases
        ELSE [null |-> FALSE, aliases |-> parsed]

\* { ...first, ...second }
RECURSIVE Spread(_, _)
Spread(first, second) ==
    IF Len(second) = 0 THEN first
    ELSE Spread(AliasSet(first, Head(second).alias, Head(second).aliasPath), Tail(second))

getProjectAliases_DefaultsWin(files, unread, content, projectRoot, defaultAliases) ==
    LET viteAliases == loadViteAliases(files, unread, content, projectRoot)
    IN  IF ~viteAliases.null THEN Spread(viteAliases.aliases, defaultAliases)
        ELSE defaultAliases

getProjectAliases(files, unread, content, projectRoot, defaultAliases) ==
    LET viteAliases == loadViteAliases(files, unread, content, projectRoot)
    IN  IF ~viteAliases.null THEN Spread(defaultAliases, viteAliases.aliases)
        ELSE defaultAliases

(***************************************************************************)
(* The search for the project root and the alias table                     *)
(***************************************************************************)
Cwd == "/w/p"

ViteDirs == <<"/", "/w", "/w/p", "/w/p/src">>

\* the config files a directory may hold
ConfigNameSets == {<<>>, <<"vite.config.mts">>, <<"vite.config.mjs", "vite.config.js">>}

ConfigsIn(dir, names) == [k \in 1..Len(names) |-> File(PathJoin(dir, names[k]), <<>>)]

ViteDisks ==
    { ConfigsIn(ViteDirs[1], f[1]) \o ConfigsIn(ViteDirs[2], f[2])
        \o ConfigsIn(ViteDirs[3], f[3]) \o ConfigsIn(ViteDirs[4], f[4]) :
      f \in [1..4 -> ConfigNameSets] }

StartDirs == {"/", "/w/p", "/w/p/src", "src", "."}

ViteContents ==
    { <<>>,
      <<AliasDecl("object", "@", "src")>>,
      <<AliasDecl("object", "@", "app"), AliasDecl("object", "@components", "src/components")>>,
      <<AliasDecl("simple", "~", "src/lib"), AliasDecl("object", "~", "lib"),
        AliasDecl("array", "@ui", "src/ui")>>,
      <<AliasDecl("fileURL", "@", "src/a"), AliasDecl("fileURL", "@", "src/b")>> }

DefaultTables ==
    { DEFAULT_ALIASES,
      << [alias |-> "@ui", aliasPath |-> "ui"], [alias |-> "@", aliasPath |-> "src"] >> }

\* the calls: getProjectAliases(cwd, ...) of renameVueFiles, and
\* findProjectRoot(startDir) followed by getProjectAliases(projectRoot, ...)
ViteCalls ==
    [entry : {"api"}, cwd : {Cwd}, startDir : {Cwd},
     content : ViteContents, defaults : DefaultTables]
    \cup [entry : {"root"}, cwd : {Cwd}, startDir : StartDirs,
          content : ViteContents, defaults : DefaultTables]

InitVite ==
    /\ disk \in ViteDisks /\ disk0 = disk
    /\ call \in ViteCalls
    /\ unreadable \in {{}, {disk[k].path : k \in 1..Len(disk)}}
    /\ ret = [currentDir |-> "", root |-> "", configPath |-> NoPath, projectRoot |-> ""]
    /\ pc = "start"
    /\ targetDir = Cwd /\ gitFiles = <<>>
    /\ opts = [entry |-> "api", dryRun |-> TRUE, useGitMv |-> TRUE, report |-> FALSE]
    /\ aliases = <<>>
    /\ mappings = <<>> /\ project = <<>> /\ importUpdates = <<>>
    /\ written = <<>> /\ moves = <<>> /\ reports = 0

viteOnly == <<disk, disk0, opts, targetDir, gitFiles, unreadable, mappings, project,
              importUpdates, written, moves, reports, call>>

\* renameVueFiles: const projectRoot = cwd
ApiRoot ==
    /\ pc = "start" /\ call.entry = "api"
    /\ ret' = [ret EXCEPT !.projectRoot = call.cwd]
    /\ pc' = "rooted"
    /\ UNCHANGED <<viteOnly, aliases>>

\* findViteConfig: let currentDir = path.resolve(startDir); const root = ...
EnterSearch ==
    /\ pc = "start" /\ call.entry = "root"
    /\ ret' = [ret EXCEPT !.currentDir = PathResolve(call.cwd, call.startDir),
                          !.root = PathRoot(PathResolve(call.cwd, call.startDir))]
    /\ pc' = "walk"
    /\ UNCHANGED <<viteOnly, aliases>>

\* the body of the while loop when the directory holds no config
WalkUp ==
    /\ pc = "walk" /\ ret.currentDir # ret.root
    /\ findViteConfigInDir(disk, ret.currentDir) = NoPath
    /\ ret' = [ret EXCEPT !.currentDir = PathDirname(ret.currentDir)]
    /\ UNCHANGED <<viteOnly, aliases, pc>>

\* the body of the while loop when the directory holds one
FoundInDir ==
    /\ pc = "walk" /\ ret.currentDir # ret.root
    /\ findViteConfigInDir(disk, ret.currentDir) # NoPath
    /\ ret' = [ret EXCEPT !.configPath = findViteConfigInDir(disk, ret.currentDir)]
    /\ pc' = "searched"
    /\ UNCHANGED <<viteOnly, aliases>>

\* the loop has reached the root: return findViteConfigInDir(root)
CheckRoot_Skipped ==
    /\ pc = "walk" /\ ret.currentDir = ret.root
    /\ ret' = [ret EXCEPT !.configPath = NoPath]
    /\ pc' = "searched"
    /\ UNCHANGED <<viteOnly, aliases>>

CheckRoot ==
    /\ pc = "walk" /\ ret.currentDir = ret.root
    /\ ret' = [ret EXCEPT !.configPath = findViteConfigInDir(disk, ret.root)]
    /\ pc' = "searched"
    /\ UNCHANGED <<viteOnly, aliases>>

\* findProjectRoot: path.dirname(configPath), or path.resolve(startDir)
ReturnRoot ==
    /\ pc = "searched"
    /\ ret' = [ret EXCEPT !.projectRoot =
                  IF ret.configPath # NoPath THEN PathDirname(ret.configPath)
                  ELSE PathResolve(call.cwd, call.startDir)]
    /\ pc' = "rooted"
    /\ UNCHANGED <<viteOnly, aliases>>

\* const aliases = getProjectAliases(projectRoot, DEFAULT_ALIASES)
GetAliases ==
    /\ pc = "rooted"
    /\ aliases' = getProjectAliases(disk, unreadable, call.content, ret.projectRoot,
                                    call.defaults)
    /\ pc' = "aliased"
    /\ UNCHANGED <<viteOnly, ret>>

NextVite ==
    \/ ApiRoot
    \/ EnterSearch
    \/ WalkUp
    \/ FoundInDir
    \/ CheckRoot
    \/ ReturnRoot
    \/ GetAliases

SpecVite == InitVite /\ [][NextVite]_vars

(***************************************************************************)
(* rename:diff: from the command line to the candidate files and the plan  *)
(***************************************************************************)
\* what the user typed: --staged, --untracked, and -b <branch> ("" when -b
\* is not on the command line)
CommandLines == [staged : BOOLEAN, untracked : BOOLEAN, branch : {"", "develop"}]

\* commander: .option('-b, --branch <branch>', ..., 'main'), the flags
\* default to false
ParseDiffOptions(argv) ==
    [staged |-> argv.staged, untracked |-> argv.untracked,
     branch |-> IF argv.branch = "" THEN "main" ELSE argv.branch]

\* the lines git prints, paths relative to the project root
GitOutputs ==
    [staged : {<<>>, <<"src/components/my-button.vue">>,
               <<"src/components/my-button.vue", "src/components/index.ts">>},
     untracked : {<<>>, <<"src/pages/home-page.vue">>},
     main : {<<>>, <<"src/shared/my-button.vue">>,
             <<"src/components/my-button.vue", "src/components/old-card.vue",
               "src/shared/my-button.vue">>},
     develop : {<<>>, <<"src/components/a-1-b.vue">>}]

\* .filter((file) => file.endsWith('.vue')).map((file) => path.resolve(projectRoot, file))
VueOf(lines, projectRoot) ==
    LET kept == SelectSeq(lines, LAMBDA file : EndsWith(file, ".vue"))
    IN  [k \in 1..Len(kept) |-> PathResolve(projectRoot, kept[k])]

getStagedFiles(git, projectRoot) == VueOf(git.staged, projectRoot)

getUntrackedFiles(git, projectRoot) == VueOf(git.untracked, projectRoot)

getGitDiffFiles(git, baseBranch, projectRoot) ==
    VueOf(IF baseBranch = "main" THEN git.main ELSE git.develop, projectRoot)

\* executeRenameDiff, "Collect files based on options"
CollectFiles(options, git, projectRoot) ==
    LET staged == IF options.staged THEN getStagedFiles(git, projectRoot) ELSE <<>>
        untracked == IF options.untracked THEN getUntrackedFiles(git, projectRoot) ELSE <<>>
        branch == IF options.branch # ""
                  THEN getGitDiffFiles(git, options.branch, projectRoot) ELSE <<>>
        default == IF ~options.staged /\ ~options.untracked /\ options.branch = ""
                   THEN getGitDiffFiles(git, "main", projectRoot) ELSE <<>>
    IN  Dedupe(staged \o untracked \o branch \o default, {})

\* the .vue files of the working tree
DiffDisk ==
    << File(ButtonVue, <<>>), File(SharedButtonVue, <<>>), File(HomePageVue, <<>>),
       File(DigitVueA, <<>>), File(IndexTs, <<>>) >>

InitCollect ==
    /\ call \in [argv : CommandLines, git : GitOutputs]
    /\ ret = <<>>
    /\ pc = "argv"
    /\ disk = DiffDisk /\ disk0 = DiffDisk
    /\ targetDir = ProjectRoot /\ gitFiles = <<>>
    /\ opts = [entry |-> "diff", dryRun |-> TRUE, useGitMv |-> TRUE, report |-> FALSE]
    /\ aliases = DEFAULT_ALIASES
    /\ unreadable = {}
    /\ mappings = <<>> /\ project = <<>> /\ importUpdates = <<>>
    /\ written = <<>> /\ moves = <<>> /\ reports = 0

\* the action of the command parses the options and collects the files
CollectDiffFiles ==
    /\ pc = "argv"
    /\ ret' = [options |-> ParseDiffOptions(call.argv)]
    /\ gitFiles' = CollectFiles(ParseDiffOptions(call.argv), call.git, ProjectRoot)
    /\ pc' = "collected"
    /\ UNCHANGED <<disk, disk0, opts, targetDir, aliases, unreadable, mappings, project,
                   importUpdates, written, moves, reports, call>>

\* const mappings = createMappingsFromFiles(files)
PlanDiff ==
    /\ pc = "collected"
    /\ mappings' = createMappingsFromFiles(gitFiles, disk)
    /\ pc' = "mapped"
    /\ UNCHANGED <<disk, disk0, opts, targetDir, gitFiles, aliases, unreadable, project,
                   importUpdates, written, moves, reports, call, ret>>

NextCollect ==
    \/ CollectDiffFiles
    \/ PlanDiff

SpecCollect == InitCollect /\ [][NextCollect]_vars

(***************************************************************************)
(* Properties of the matcher and the rewriter                              *)
(***************************************************************************)
\* the absolute path a specifier resolves to: through the first alias it lies
\* under, else relative to the directory of the importing file when it
\* starts with "."; NoPath for any other specifier
ResolvedPath(importingFile, moduleSpecifier, aliasTable, projectRoot) ==
    LET aliasResolved == resolveAliasImport(moduleSpecifier, aliasTable, projectRoot)
    IN  IF aliasResolved # NoPath THEN aliasResolved
        ELSE IF StartsWith(moduleSpecifier, ".")
             THEN PathResolve(PathDirname(importingFile), moduleSpecifier)
        ELSE NoPath

Matched == {k \in 1..Len(call.mappings) : ret.matched[k]}

\* C2: of two operations with the same oldName in different directories a
\* reference matches at most one, and an operation is matched only when its
\* oldPath is the path the reference resolves to; one update is produced per
\* matched operation.
C2_SameNameMatchedByPath ==
    pc \in {"matched", "rematched"} =>
        /\ \A a, b \in Matched :
              ( /\ call.mappings[a].oldName = call.mappings[b].oldName
                /\ PathDirname(call.mappings[a].oldPath) # PathDirname(call.mappings[b].oldPath) )
              => a = b
        /\ \A a \in Matched :
              ResolvedPath(call.importingFile, call.moduleSpecifier, call.aliases, ProjectRoot)
                  = call.mappings[a].oldPath
        /\ Len(ret.updates) = Cardinality(Matched)

\* the second of two operations named my-button.vue is matched, the first,
\* of the same name, is not
C2_Witness ==
    /\ pc = "matched"
    /\ Len(call.mappings) = 2
    /\ call.mappings[1].oldName = call.mappings[2].oldName
    /\ Matched = {2}

\* new is old with the occurrence of oldName at position i replaced by newName
ReplacedAt(old, new, oldName, newName, i) ==
    /\ Substring(old, i, i + Len(oldName)) = oldName
    /\ Len(new) = Len(old) - Len(oldName) + Len(newName)
    /\ Substring(new, 0, i) = Substring(old, 0, i)
    /\ Substring(new, i, i + Len(newName)) = newName
    /\ Slice(new, i + Len(newName)) = Slice(old, i + Len(oldName))

\* C6: the newImport of every update is its oldImport with the last
\* occurrence of oldName, and nothing else, replaced by newName.
C6_LastOccurrenceReplaced ==
    pc \in {"matched", "rematched"} =>
        \A n \in 1..Len(ret.updates) :
            \E k \in Matched :
                LET old == ret.updates[n].oldImport
                    oldName == call.mappings[k].oldName
                IN  /\ old = call.moduleSpecifier
                    /\ \E i \in Occurrences(old, oldName) :
                          /\ \A j \in Occurrences(old, oldName) : j <= i
                          /\ ReplacedAt(old, ret.updates[n].newImport, oldName,
                                        call.mappings[k].newName, i)

\* an update whose specifier holds oldName in a directory segment too
C6_Witness ==
    /\ pc = "matched"
    /\ Len(ret.updates) = 1
    /\ Cardinality(Occurrences(ret.updates[1].oldImport, call.mappings[1].oldName)) >= 2
    /\ ret.updates[1].newImport # ret.updates[1].oldImport

\* C7: the rewritten specifier of an update does not match the operation it
\* was rewritten for.
C7_RewriteIsTerminal ==
    pc = "rematched" => \A k \in 1..Len(call.mappings) : ~ret.again[k]

\* the matcher has run again on a specifier that was rewritten
C7_Witness ==
    /\ pc = "rematched"
    /\ Matched # {}
    /\ Len(ret.updates) > 0

\* the specifier is the prefix P or starts with P and a "/"
LiesUnder(moduleSpecifier, P) ==
    \/ moduleSpecifier = P
    \/ StartsWith(moduleSpecifier, IF EndsWith(P, "/") THEN P ELSE P \o "/")

\* neither relative nor under an alias of the table of the call
IsBare(moduleSpecifier) ==
    /\ ~StartsWith(moduleSpecifier, ".")
    /\ \A n \in 1..Len(call.aliases) : ~LiesUnder(moduleSpecifier, call.aliases[n].alias)

\* C14: a specifier that neither starts with "." nor lies under an alias
\* matches no operation and yields no update, whatever it ends with.
C14_BareSpecifierNeverMatches ==
    (pc \in {"matched", "rematched"} /\ IsBare(call.moduleSpecifier)) =>
        /\ Matched = {}
        /\ ret.updates = <<>>

\* the matcher has run on the specifier my-button.vue, the very oldName of
\* an operation, from a file in the directory of the renamed file
C14_Witness ==
    /\ pc = "matched"
    /\ call.moduleSpecifier = "my-button.vue"
    /\ call.importingFile = IndexTs
    /\ \E k \in 1..Len(call.mappings) : call.mappings[k].oldPath = ButtonVue
    /\ Matched = {}

\* what resolveAliasImport returns for the specifier of the call
AliasResolved == resolveAliasImport(call.moduleSpecifier, call.aliases, ProjectRoot)

\* C15: resolveAliasImport resolves a specifier exactly when it lies under an
\* alias of the table: it is the alias, or it starts with the alias and a
\* "/" (with the alias alone when the alias itself ends with "/").
C15_AliasOnSegmentBoundary ==
    pc \in {"matched", "rematched"} =>
        ( AliasResolved # NoPath
          <=> \E n \in 1..Len(call.aliases) :
                  LiesUnder(call.moduleSpecifier, call.aliases[n].alias) )

\* the alias "@" of the default table has not captured
\* @components/my-button.vue
C15_Witness ==
    /\ pc = "matched"
    /\ call.aliases = DEFAULT_ALIASES
    /\ call.moduleSpecifier = "@components/my-button.vue"
    /\ AliasResolved = NoPath
    /\ Matched = {}

\* C15 as stated: a specifier is resolved through an alias P only when it is
\* P or starts with P followed by "/".
C15_AliasFollowedBySlash ==
    (pc \in {"matched", "rematched"} /\ AliasResolved # NoPath) =>
        \E n \in 1..Len(call.aliases) :
            \/ call.moduleSpecifier = call.aliases[n].alias
            \/ StartsWith(call.moduleSpecifier, call.aliases[n].alias \o "/")

(***************************************************************************)
(* Properties of a run                                                     *)
(***************************************************************************)
\* the files the run scans, as they were when it started
Scanned0 == loadProject(disk0, ScanDir, unreadable)

Resolved(filePath, moduleSpecifier) ==
    ResolvedPath(filePath, moduleSpecifier, aliases, ProjectRoot)

Ops == 1..Len(mappings)

OldPaths == {mappings[k].oldPath : k \in Ops}

\* where the file that started at path is once its own move is done
FinalPath(path) ==
    IF path \in OldPaths
    THEN mappings[CHOOSE k \in Ops : mappings[k].oldPath = path].newPath
    ELSE path

\* the file that started at path, where it is now
Current(path) ==
    IF ExistsSync(disk, path) THEN disk[IndexOfPath(disk, path, 1)]
    ELSE IF ExistsSync(disk, FinalPath(path)) THEN disk[IndexOfPath(disk, FinalPath(path), 1)]
    ELSE File(NoPath, <<>>)

Resolving == {"resolved", "moving", "done", "threw"}

\* the references of the files the run scanned, as they were when it
\* started: [path, line, spec, to], to being the path spec resolved to
RefsOfFile(f) ==
    { [path |-> f.path, line |-> r, text |-> f.refs[r].text,
       spec |-> LiteralValue(f.refs[r].text),
       to |-> Resolved(f.path, LiteralValue(f.refs[r].text))] :
        r \in {r \in 1..Len(f.refs) : HasModuleSpecifier(f.refs[r])} }

ScannedRefs == LET sc == Scanned0 IN UNION {RefsOfFile(sc[n]) : n \in 1..Len(sc)}

\* the operations whose oldPath is path
OpsAt(path) == {k \in Ops : mappings[k].oldPath = path}

\* C1: after a non-dry run whose moves all succeeded, every reference of a
\* scanned file that resolved to the oldPath of an operation resolves to its
\* newPath, and no reference of a scanned file resolves to an oldPath.
C1_ReferencesFollowTheRename ==
    (pc = "done" /\ ~opts.dryRun) =>
        /\ \A ref \in ScannedRefs : \A k \in OpsAt(ref.to) :
              LET now == Current(ref.path)
              IN  /\ now.path = FinalPath(ref.path)
                  /\ Resolved(now.path, LiteralValue(now.refs[ref.line].text))
                         = mappings[k].newPath
        /\ \A n \in 1..Len(disk) : \A r \in 1..Len(disk[n].refs) :
              ( /\ StartsWith(disk[n].path, ScanDir \o "/")
                /\ HasModuleSpecifier(disk[n].refs[r]) )
              => Resolved(disk[n].path, LiteralValue(disk[n].refs[r].text)) \notin OldPaths

\* a run is over in which the importing file was moved itself and held a
\* reference to another renamed file
C1_Witness ==
    /\ pc = "done" /\ ~opts.dryRun
    /\ \E ref \in ScannedRefs :
          /\ ref.path \in OldPaths
          /\ OpsAt(ref.to) # {}
          /\ Current(ref.path).refs[ref.line].text # ref.text

UpdatesAt(filePath, line) ==
    {n \in 1..Len(importUpdates) :
        importUpdates[n].file = filePath /\ importUpdates[n].line = line}

\* C3: a reference yields updates only for operations whose oldPath is the
\* path it resolves to (none when it resolves to a path that is no oldPath,
\* such as a file of the same name in another directory), and every update
\* records the specifier of a reference of a scanned file.
C3_UpdateOnlyForResolvedOldPath ==
    pc \in Resolving =>
        LET refs == ScannedRefs
        IN  /\ \A ref \in refs :
                  Cardinality(UpdatesAt(ref.path, ref.line)) <= Cardinality(OpsAt(ref.to))
            /\ \A u \in 1..Len(importUpdates) :
                  \E ref \in refs :
                      /\ ref.path = importUpdates[u].file
                      /\ ref.line = importUpdates[u].line
                      /\ ref.spec = importUpdates[u].oldImport

\* a file references both a renamed file and a file of the same name in
\* another directory that is on disk and not in the plan; only the first
\* reference has an update
C3_Witness ==
    /\ pc = "resolved"
    /\ Len(importUpdates) = 1
    /\ \E ref \in ScannedRefs : \E k \in Ops :
          /\ PathBasename(ref.to) = mappings[k].oldName
          /\ ref.to \notin OldPaths
          /\ ExistsSync(disk0, ref.to)
          /\ UpdatesAt(ref.path, ref.line) = {}

Saved == {"moving", "done", "threw"}

\* C4: once the rewrites are saved, a reference spelled with the extension
\* that resolved to the oldPath of an operation reads as before up to the
\* file name, then newName, extension included, in the same quotes.
C4_ExtensionKept ==
    (pc \in Saved /\ ~opts.dryRun) =>
        \A ref \in ScannedRefs : \A k \in OpsAt(ref.to) :
            LET text1 == Current(ref.path).refs[ref.line].text
            IN  PathExtname(ref.spec) # "" =>
                   /\ LiteralValue(text1) =
                          Substring(ref.spec, 0, Len(ref.spec) - Len(mappings[k].oldName))
                              \o mappings[k].newName
                   /\ PathExtname(LiteralValue(text1)) = PathExtname(ref.spec)
                   /\ CharAt(text1, 0) = CharAt(ref.text, 0)
                   /\ CharAt(text1, Len(text1) - 1) = CharAt(ref.text, Len(ref.text) - 1)

\* components/index.ts held './my-button.vue' and "@/components/my-button.vue"
\* and now holds './MyButton.vue' and "@/components/MyButton.vue"
C4_Witness ==
    /\ pc = "done" /\ ~opts.dryRun
    /\ ExistsSync(disk0, IndexTs) /\ ExistsSync(disk, IndexTs)
    /\ LET before == disk0[IndexOfPath(disk0, IndexTs, 1)].refs
           after == disk[IndexOfPath(disk, IndexTs, 1)].refs
       IN  /\ Len(before) = 2 /\ Len(after) = 2
           /\ <<before[1].text, before[2].text>>
                  = <<"'./my-button.vue'", "\"@/components/my-button.vue\"">>
           /\ <<after[1].text, after[2].text>>
                  = <<"'./MyButton.vue'", "\"@/components/MyButton.vue\"">>

\* C5: once the rewrites are saved, a reference spelled without the
\* extension that points at the oldPath of an operation (its resolved path
\* with the extension of the file is the oldPath) reads as before up to the
\* file name, then the new base name, the extension still absent.
C5_ExtensionlessRewritten ==
    (pc \in Saved /\ ~opts.dryRun) =>
        \A ref \in ScannedRefs : \A k \in Ops :
            LET ext == PathExtname(mappings[k].oldName)
                oldBase == PathBasenameExt(mappings[k].oldName, ext)
                newBase == PathBasenameExt(mappings[k].newName, ext)
            IN  ( /\ PathExtname(ref.spec) = ""
                  /\ ref.to # NoPath
                  /\ ref.to \o ext = mappings[k].oldPath )
                => LiteralValue(Current(ref.path).refs[ref.line].text) =
                       Substring(ref.spec, 0, Len(ref.spec) - Len(oldBase)) \o newBase

\* the plan and the updates a run computes from the files on disk; dryRun is
\* not among what they are computed from
PlanFrom(files) ==
    IF opts.entry = "api"
    THEN findKebabCaseFiles(files, targetDir)
    ELSE createMappingsFromFiles(Dedupe(gitFiles, {}), files)

UpdatesFrom(files, plan) ==
    findImportUpdates(loadProject(files, ScanDir, unreadable), plan, aliases, ProjectRoot)

C9_NoCollidingTarget ==
    pc # "start" =>
        /\ \A k \in Ops : ~ExistsSync(disk0, mappings[k].newPath)
        /\ \A j, k \in Ops : j # k => mappings[j].newPath # mappings[k].newPath

\* C10: when the move of an operation failed, the run goes on: it is in the
\* loop or over with its result, every operation of the plan attempted.
C10_FailedMoveIsSkipped ==
    (\E k \in 1..Len(moves) : ~moves[k][Len(moves[k])].ok) =>
        /\ pc \in {"moving", "done"}
        /\ pc = "done" => Len(moves) = Len(mappings)

\* a reference points at the file of operation k by its old name: it
\* resolves to oldPath, spelled with the extension or without it
PointsAtOld(ref, k) ==
    /\ ref.to # NoPath
    /\ \/ ref.to = mappings[k].oldPath
       \/ ref.to \o PathExtname(mappings[k].oldName) = mappings[k].oldPath

\* C11: when a non-dry run is over, no reference inside a file the run has
\* moved still points at a renamed file by its old name: each is rewritten,
\* in the first pass or in the pass over the moved files.
C11_MovedFilesRescanned ==
    (pc = "done" /\ ~opts.dryRun) =>
        \A ref \in ScannedRefs : \A k \in Ops :
            (ref.path \in OldPaths /\ PointsAtOld(ref, k))
            => Current(ref.path).refs[ref.line].text # ref.text

\* the stages of a run, in their order
StageOf(at) ==
    CASE at = "start" -> 0
      [] at = "planned" -> 1
      [] at = "loaded" -> 2
      [] at = "resolved" -> 3
      [] at = "moving" -> 4
      [] OTHER -> 5

\* every rewritten source file of the project is on disk as the project
\* holds it, at its old or its new path
NothingPending ==
    \A n \in 1..Len(project) : Current(project[n].path).refs = project[n].refs

\* C21: a run never goes back to an earlier stage; up to the choice between
\* applying and not, the disk is the one the run started on (the update set
\* is computed against it), nothing is written and nothing moved; once a
\* file has been moved every rewrite is on disk, each file was written once,
\* and while the files are moved the update set, the project and the list
\* of written files stay as they are.
C21_StagesInOrder ==
    /\ [](StageOf(pc) <= 3 => (disk = disk0 /\ written = <<>> /\ moves = <<>>))
    /\ [](pc = "resolved" => importUpdates = UpdatesFrom(disk0, mappings))
    /\ [](Len(moves) > 0 =>
            /\ StageOf(pc) >= 4
            /\ NothingPending
            /\ \A i, j \in 1..Len(written) : written[i] = written[j] => i = j)
    /\ [][ /\ StageOf(pc') >= StageOf(pc)
           /\ StageOf(pc) >= 4 =>
                 (written' = written /\ importUpdates' = importUpdates
                  /\ project' = project) ]_vars

\* the importing file was rewritten and saved, then a file was moved
C21_Witness ==
    /\ pc = "moving" /\ ~opts.dryRun
    /\ Len(written) > 0
    /\ Len(moves) > 0 /\ moves[1][Len(moves[1])].ok
    /\ disk # disk0

\* C22: for each operation attempted, fs.renameSync is tried only when git
\* mv is not used or was tried just before and failed; nothing is tried
\* after a git mv that succeeded; git mv is tried only when it is used; and
\* at most one of the moves tried succeeded.
C22_OneMechanismPerOperation ==
    \A k \in 1..Len(moves) :
        LET tried == moves[k]
        IN  /\ Len(tried) \in {1, 2}
            /\ \A i \in 1..Len(tried) :
                  /\ tried[i].by = "fs" =>
                        \/ ~TriesGitMv /\ i = 1
                        \/ i = 2 /\ tried[1].by = "git" /\ ~tried[1].ok
                  /\ tried[i].by = "git" => (TriesGitMv /\ i = 1)
                  /\ (tried[i].by = "git" /\ tried[i].ok) => Len(tried) = 1
            /\ Cardinality({i \in 1..Len(tried) : tried[i].ok}) <= 1

\* the first file was moved by git mv, the second by fs.renameSync after git
\* mv had failed
C22_Witness ==
    /\ Len(moves) = 2
    /\ moves[1] = <<[by |-> "git", ok |-> TRUE]>>
    /\ moves[2] = <<[by |-> "git", ok |-> FALSE], [by |-> "fs", ok |-> TRUE]>>

\* C26: the project holds every file of the scan scope but those that
\* cannot be parsed; after the save a file that cannot be parsed is on disk
\* as it was, and in every other file each reference spelled with the
\* extension that resolved to an oldPath is rewritten; and the run ends
\* early only when a move has failed.
C26_UnparsedFileIsSkipped ==
    LET scope == Glob(disk0, ScanDir, DEFAULT_EXTENSIONS)
        parsed == SelectSeq(scope, LAMBDA f : f.path \notin unreadable)
    IN  /\ (StageOf(pc) >= 2 /\ Len(mappings) > 0) => PathsOf(project) = PathsOf(parsed)
        /\ (pc \in Saved /\ ~opts.dryRun) =>
              \A n \in 1..Len(scope) :
                  IF scope[n].path \in unreadable
                  THEN Current(scope[n].path).refs = scope[n].refs
                  ELSE \A r \in 1..Len(scope[n].refs) :
                          LET spec == LiteralValue(scope[n].refs[r].text)
                          IN  ( /\ PathExtname(spec) # ""
                                /\ Resolved(scope[n].path, spec) \in OldPaths )
                              => Current(scope[n].path).refs[r].text
                                     # scope[n].refs[r].text
        /\ pc = "threw" =>
              (Len(moves) > 0 /\ ~moves[Len(moves)][Len(moves[Len(moves)])].ok)

\* index.ts cannot be parsed and keeps its reference to the renamed file;
\* home-page.vue, after it in the scope, was rewritten and moved
C26_Witness ==
    /\ pc = "done" /\ ~opts.dryRun
    /\ unreadable = {IndexTs}
    /\ Len(disk0[2].refs) > 0
    /\ Current(IndexTs).refs = disk0[2].refs
    /\ Len(disk0[3].refs) > 0
    /\ Current(HomePageVue).path # HomePageVue
    /\ Current(HomePageVue).refs # disk0[3].refs

\* C27: every operation of the plan has for oldName the base name of its
\* oldPath, a kebab-case name, for newName its PascalCase form, and its
\* newPath is that name in the directory of oldPath; a file whose base name
\* holds no "-" or holds an upper-case letter is the oldPath of no operation.
C27_OperationsAreWellFormed ==
    pc # "start" =>
        /\ \A k \in Ops :
              /\ mappings[k].oldName = PathBasename(mappings[k].oldPath)
              /\ isKebabCase(mappings[k].oldName)
              /\ mappings[k].newName = toPascalCase(mappings[k].oldName)
              /\ PathDirname(mappings[k].newPath) = PathDirname(mappings[k].oldPath)
              /\ PathBasename(mappings[k].newPath) = mappings[k].newName
        /\ \A n \in 1..Len(disk0) :
              LET name == PathBasename(disk0[n].path)
              IN  ( \/ IndexOf(name, "-") = -1
                    \/ \E i \in 0..(Len(name) - 1) : IsUpper(CharAt(name, i)) )
                  => disk0[n].path \notin OldPaths

\* button.vue and my-button.vue were the candidates: one operation, for
\* my-button.vue
C27_Witness ==
    /\ pc = "planned"
    /\ PathsOf(disk0) = <<SrcDir \o "/components/button.vue",
                          SrcDir \o "/components/my-button.vue">>
    /\ Len(mappings) = 1
    /\ mappings[1].oldName = "my-button.vue" /\ mappings[1].newName = "MyButton.vue"

\* C29: when the plan is empty the run is over at once: no project is
\* loaded, no update computed, nothing written, nothing moved, no report,
\* the disk is as it was, whether dryRun or not; renameVueFiles returns
\* empty mappings, fileStats and importUpdates and a summary of zeros, the
\* command returns nothing.
C29_EmptyPlanDoesNothing ==
    (pc # "start" /\ Len(mappings) = 0) =>
        /\ pc = "done"
        /\ project = <<>> /\ importUpdates = <<>>
        /\ written = <<>> /\ moves = <<>> /\ reports = 0
        /\ disk = disk0
        /\ IF opts.entry = "api"
           THEN /\ ret.mappings = <<>> /\ ret.fileStats = <<>> /\ ret.importUpdates = <<>>
                /\ \A t \in DOMAIN ret.summary : ret.summary[t] = 0
                /\ DOMAIN ret.summary = {"totalFiles", "totalLines", "totalSize", "totalImports"}
                /\ ret.dryRun = opts.dryRun
           ELSE ret = <<>>

\* renameVueFiles, not a dry run, on a directory whose two .vue files are
\* not kebab-case
C29_Witness ==
    /\ pc = "done" /\ opts.entry = "api" /\ ~opts.dryRun
    /\ Len(disk0) = 2
    /\ Len(mappings) = 0
    /\ ret.summary.totalFiles = 0

(***************************************************************************)
(* Properties of the rewrite of one source file                            *)
(***************************************************************************)
\* the source file before findImportUpdates and after applyImportUpdates
Before == disk0[1]

After == project[1]

\* the specifier of reference r of the source file resolves to the oldPath
\* of operation k
ResolvesToOp(r, k) ==
    /\ HasModuleSpecifier(Before.refs[r])
    /\ Resolved(Before.path, LiteralValue(Before.refs[r].text)) = mappings[k].oldPath

\* specifier with the file name oldName at its end replaced by newName
Renamed(specifier, k) ==
    Substring(specifier, 0, Len(specifier) - Len(mappings[k].oldName)) \o mappings[k].newName

\* C12: the argument of an import() call whose specifier resolves to a
\* renamed file becomes the new specifier between the quote characters the
\* argument had; the rest of the call is as it was.
C12_DynamicImportKeepsQuote ==
    pc = "applied" =>
        \A r \in 1..Len(Before.refs) : \A k \in Ops :
            (Before.refs[r].kind = "dynamic" /\ ResolvesToOp(r, k)) =>
                LET text0 == Before.refs[r].text
                    quote == CharAt(text0, 0)
                IN  /\ quote \in {"'", "\"", Backtick}
                    /\ After.refs[r].text = quote \o Renamed(LiteralValue(text0), k) \o quote
                    /\ After.refs[r].kind = "dynamic"
                    /\ After.refs[r].clause = Before.refs[r].clause

\* an import() call with a template literal and one with a double-quoted
\* literal have been rewritten, each in its own quotes
C12_Witness ==
    /\ pc = "applied"
    /\ Len(Before.refs) = 2
    /\ Before.refs[1] = Ref("dynamic", "", Backtick \o "@/components/my-button.vue" \o Backtick)
    /\ After.refs[1].text = Backtick \o "@/components/MyButton.vue" \o Backtick
    /\ After.refs[2].text = "\"@/shared/MyButton.vue\""

C16_RenamedIsNotKebab ==
    (pc = "reconverted" /\ ret.kebab) =>
        /\ ~ret.again.kebab
        /\ ret.pascal # call.name

\* my-button.vue was kebab-case, MyButton.vue is not
C16_Witness ==
    /\ pc = "reconverted"
    /\ call.name = "my-button.vue"
    /\ ret.kebab
    /\ ret.pascal = "MyButton.vue"
    /\ ~ret.again.kebab

\* the base name read character by character: a "-" is dropped, the
\* character at the start and the one after a "-" is upper-cased, any other
\* is lower-cased
RECURSIVE PascalScan(_, _, _)
PascalScan(baseName, i, atWordStart) ==
    IF i >= Len(baseName) THEN ""
    ELSE LET c == CharAt(baseName, i)
         IN  IF c = "-" THEN PascalScan(baseName, i + 1, TRUE)
             ELSE (IF atWordStart THEN ToUpperChar(c) ELSE ToLowerChar(c))
                      \o PascalScan(baseName, i + 1, FALSE)

\* C17: toPascalCase returns, for every file name, the base name with each
\* "-"-separated word capitalised and the rest of the word lower-cased, the
\* words concatenated, then the extension as it was.
C17_PascalCaseTransform ==
    pc \in {"converted", "reconverted"} =>
        LET ext == PathExtname(call.name)
            baseName == Substring(call.name, 0, Len(call.name) - Len(ext))
        IN  /\ ret.pascal = PascalScan(baseName, 0, TRUE) \o ext
            /\ EndsWith(ret.pascal, ext)
            /\ IndexOf(Substring(ret.pascal, 0, Len(ret.pascal) - Len(ext)), "-") = -1

\* my-component.vue has become MyComponent.vue
C17_Witness ==
    /\ pc = "converted"
    /\ call.name = "my-component.vue"
    /\ ret.pascal = "MyComponent.vue"

(***************************************************************************)
(* Properties of the candidate files of rename:diff                        *)
(***************************************************************************)
SetOf(seq) == {seq[k] : k \in 1..Len(seq)}

\* C18: with --staged alone on the command line (no -b, no --untracked) the
\* candidate files are the staged .vue files and no other.
C18_StagedOnly ==
    ( /\ pc \in {"collected", "mapped"}
      /\ call.argv.staged /\ ~call.argv.untracked /\ call.argv.branch = "" )
    => SetOf(gitFiles) = SetOf(getStagedFiles(call.git, ProjectRoot))

(***************************************************************************)
(* Properties of the project root and the alias table                      *)
(***************************************************************************)
HasConfig(dir) ==
    \E k \in 1..Len(VITE_CONFIG_NAMES) : ExistsSync(disk, PathJoin(dir, VITE_CONFIG_NAMES[k]))

\* the directories on the path from dir up to the root, both included
UpFrom(dir) ==
    {ViteDirs[k] : k \in {j \in 1..Len(ViteDirs) :
        \/ ViteDirs[j] = dir
        \/ ViteDirs[j] = "/"
        \/ StartsWith(dir, ViteDirs[j] \o "/")}}

ConfigDirsFrom(dir) == {d \in UpFrom(dir) : HasConfig(d)}

\* the table parsed from the config that would be used, empty when no
\* config is found or it cannot be read
ParsedFor(dir) ==
    IF ConfigDirsFrom(dir) = {} \/ unreadable # {} THEN <<>>
    ELSE parseAliasesFromConfig(call.content)

\* C19: getProjectAliases returns the default table when no config is found,
\* it cannot be read or no alias is parsed; otherwise every default alias
\* and every parsed alias is a key of the result, once, and a key of both
\* has the parsed value.
C19_AliasesMergeDefaults ==
    pc = "aliased" =>
        LET parsed == ParsedFor(ret.projectRoot)
        IN  IF Len(parsed) = 0 THEN aliases = call.defaults
            ELSE /\ \A k \in 1..Len(call.defaults) :
                        AliasGet(aliases, call.defaults[k].alias) # NoPath
                 /\ \A k \in 1..Len(parsed) :
                        AliasGet(aliases, parsed[k].alias) = parsed[k].aliasPath
                 /\ \A i, j \in 1..Len(aliases) :
                        aliases[i].alias = aliases[j].alias => i = j

\* a readable config declares an alias the defaults hold with another value
C19_Witness ==
    /\ pc = "aliased"
    /\ \E k \in 1..Len(ParsedFor(ret.projectRoot)) :
          LET a == ParsedFor(ret.projectRoot)[k]
          IN  /\ AliasGet(call.defaults, a.alias) \notin {NoPath, a.aliasPath}
              /\ AliasGet(aliases, a.alias) = a.aliasPath

StartDir == PathResolve(call.cwd, call.startDir)

\* C20: findProjectRoot returns the nearest directory from startDir up to
\* the root, both included, that holds a vite config, startDir when there is
\* none; and the search comes to an end: every turn of its loop either
\* leaves the loop or shortens currentDir, which never gets shorter than
\* the root.
C20_NearestConfigDir ==
    /\ [](( pc \in {"rooted", "aliased"} /\ call.entry = "root" ) =>
            IF ConfigDirsFrom(StartDir) = {} THEN ret.projectRoot = StartDir
            ELSE /\ ret.projectRoot \in ConfigDirsFrom(StartDir)
                 /\ \A d \in ConfigDirsFrom(StartDir) : Len(d) <= Len(ret.projectRoot))
    /\ [](pc = "walk" => Len(ret.currentDir) >= Len(ret.root))
    /\ [][pc = "walk" =>
            \/ pc' = "searched"
            \/ pc' = "walk" /\ Len(ret'.currentDir) < Len(ret.currentDir)]_vars

\* the search has climbed from src to the root and found the config there
C20_Witness ==
    /\ pc = "rooted" /\ call.entry = "root"
    /\ StartDir = "/w/p/src"
    /\ ret.currentDir = "/" /\ ret.projectRoot = "/"
    /\ ret.configPath = "/vite.config.js"

(***************************************************************************)
(* Properties of the loop over the operations and of the alias table       *)
(***************************************************************************)
Reverse(seq) == [k \in 1..Len(seq) |-> seq[Len(seq) + 1 - k]]

\* C23: a reference that resolves to the oldPath of an operation and ends
\* with its file name has an update for that operation, wherever the
\* operation stands in the plan; there is one update for each operation that
\* matches; and the plan in the reverse order gives the same set of updates.
C23_EveryOperationTried ==
    pc \in {"matched", "rematched"} =>
        /\ \A k \in 1..Len(call.mappings) :
              ( /\ ResolvedPath(call.importingFile, call.moduleSpecifier, call.aliases,
                                ProjectRoot) = call.mappings[k].oldPath
                /\ EndsWithOldName(call.moduleSpecifier, call.mappings[k].oldName) )
              => \E n \in 1..Len(ret.updates) :
                    ret.updates[n] =
                        ImportUpdate(call.importingFile, call.moduleSpecifier,
                            replaceImportPath(call.moduleSpecifier,
                                call.mappings[k].oldName, call.mappings[k].newName), 1)
        /\ Len(ret.updates) = Cardinality(Matched)
        /\ SetOf(ret.updates) =
              SetOf(UpdatesForSpecifier(call.importingFile, call.moduleSpecifier, 1,
                                        Reverse(call.mappings), call.aliases, ProjectRoot))

\* the first operation of the plan has the file name of the second, the
\* reference resolves to the second and has its update
C23_Witness ==
    /\ pc = "matched"
    /\ Len(call.mappings) = 2
    /\ call.mappings[1].oldName = call.mappings[2].oldName
    /\ ~ret.matched[1] /\ ret.matched[2]
    /\ Len(ret.updates) = 1

\* the aliases of the table the specifier lies under
AliasesOver(moduleSpecifier) ==
    {n \in 1..Len(call.aliases) : LiesUnder(moduleSpecifier, call.aliases[n].alias)}

\* the path the specifier has under alias n of the table
PathUnder(moduleSpecifier, n) ==
    LET P == call.aliases[n].alias
        prefix == IF EndsWith(P, "/") THEN P ELSE P \o "/"
        rest == IF StartsWith(moduleSpecifier, prefix)
                THEN Slice(moduleSpecifier, Len(prefix)) ELSE ""
    IN  PathResolve3(ProjectRoot, call.aliases[n].aliasPath, rest)

\* C24: a specifier that lies under aliases of the table matches an
\* operation only if its path under the first of them is the oldPath; a
\* later alias and the directory of the importing file are not tried.
C24_FirstAliasDecides ==
    (pc \in {"matched", "rematched"} /\ AliasesOver(call.moduleSpecifier) # {}) =>
        LET over == AliasesOver(call.moduleSpecifier)
            first == CHOOSE n \in over : \A m \in over : n <= m
        IN  /\ \A k \in 1..Len(call.mappings) :
                   ret.matched[k] =>
                      PathUnder(call.moduleSpecifier, first) = call.mappings[k].oldPath
            /\ (\A k \in 1..Len(call.mappings) :
                   PathUnder(call.moduleSpecifier, first) # call.mappings[k].oldPath)
               => ret.updates = <<>>

\* the specifier lies under two aliases; under the second its path is the
\* oldPath of an operation, under the first it is not: no match
C24_Witness ==
    /\ pc = "matched"
    /\ Cardinality(AliasesOver(call.moduleSpecifier)) = 2
    /\ \E k \in 1..Len(call.mappings) :
          /\ PathUnder(call.moduleSpecifier, 2) = call.mappings[k].oldPath
          /\ PathUnder(call.moduleSpecifier, 1) # call.mappings[k].oldPath
          /\ EndsWithOldName(call.moduleSpecifier, call.mappings[k].oldName)
    /\ Matched = {}
    /\ ret.updates = <<>>

(***************************************************************************)
(* Properties of applyImportUpdates on any list of updates                 *)
(***************************************************************************)
\* the updates of the list for the file at path whose oldImport is text
UpdatesNaming(path, text) ==
    {n \in 1..Len(importUpdates) :
        importUpdates[n].file = path /\ importUpdates[n].oldImport = text}

\* C25: after applyImportUpdates the project holds the same files with the
\* same number of references; a reference that reads otherwise than before
\* had an update of its own file whose oldImport was its specifier, reads as
\* the newImport of the first such update in the quotes it had, and keeps
\* its kind and its clause; every other reference reads as before, and so
\* does every file that no update names.
C25_OnlyMatchingUpdateApplied ==
    pc = "applied" =>
        /\ Len(project) = Len(disk0)
        /\ \A n \in 1..Len(project) :
              /\ project[n].path = disk0[n].path
              /\ Len(project[n].refs) = Len(disk0[n].refs)
              /\ \A r \in 1..Len(project[n].refs) :
                    LET before == disk0[n].refs[r]
                        after == project[n].refs[r]
                        naming == UpdatesNaming(disk0[n].path, LiteralValue(before.text))
                    IN  IF HasModuleSpecifier(before) /\ naming # {}
                        THEN LET first == CHOOSE i \in naming : \A j \in naming : i <= j
                                 q == CharAt(before.text, 0)
                             IN  after = [before EXCEPT
                                            !.text = q \o importUpdates[first].newImport \o q]
                        ELSE after = before

\* one reference was rewritten while the list held an update whose oldImport
\* is in no reference of its file and an update of a file that is not loaded
C25_Witness ==
    /\ pc = "applied"
    /\ project # disk0
    /\ \E n \in 1..Len(importUpdates) :
          /\ importUpdates[n].file = IndexTs
          /\ \A r \in 1..Len(disk0[1].refs) :
                LiteralValue(disk0[1].refs[r].text) # importUpdates[n].oldImport
    /\ \E n \in 1..Len(importUpdates) :
          \A k \in 1..Len(disk0) : disk0[k].path # importUpdates[n].file

(***************************************************************************)
(* Properties of a second application of the updates                       *)
(***************************************************************************)
\* C28: among the updates findImportUpdates returns, no newImport is the
\* oldImport of an update of the same file, and applyImportUpdates with the
\* same updates on the rewritten project changes nothing.
C28_SecondApplicationChangesNothing ==
    /\ [](pc \in {"apply", "applied", "reapplied"} =>
            \A i, j \in 1..Len(importUpdates) :
                importUpdates[i].file = importUpdates[j].file
                => importUpdates[i].newImport # importUpdates[j].oldImport)
    /\ [][pc = "applied" => project' = project]_vars

\* two references of the file were rewritten, then the updates applied again
C28_Witness ==
    /\ pc = "reapplied"
    /\ Len(importUpdates) >= 2
    /\ Len(project[1].refs) >= 2
    /\ project[1].refs[1] # disk0[1].refs[1]
    /\ project[1].refs[2] # disk0[1].refs[2]

(***************************************************************************)
(* Properties of the plan of rename:diff                                   *)
(***************************************************************************)
\* C30: the candidate files of rename:diff hold no path twice; every
\* operation of its plan has an oldPath that is on disk, a path that is
\* listed but not on disk has no operation, and no two operations have the
\* same oldPath.
C30_PlanOfExistingDistinctFiles ==
    /\ pc \in {"collected", "mapped"} =>
          \A i, j \in 1..Len(gitFiles) : gitFiles[i] = gitFiles[j] => i = j
    /\ pc = "mapped" =>
          /\ \A k \in Ops : ExistsSync(disk, mappings[k].oldPath)
          /\ \A n \in 1..Len(gitFiles) :
                ~ExistsSync(disk, gitFiles[n]) => gitFiles[n] \notin OldPaths
          /\ \A j, k \in Ops : mappings[j].oldPath = mappings[k].oldPath => j = k

\* my-button.vue is staged and in the diff against main, old-card.vue is in
\* the diff but no longer on disk: one operation for my-button.vue, none
\* for old-card.vue
C30_Witness ==
    /\ pc = "mapped"
    /\ call.argv.staged
    /\ call.git.staged # <<>> /\ Len(call.git.main) = 3
    /\ DeletedVue \in SetOf(gitFiles)
    /\ Cardinality({k \in Ops : mappings[k].oldPath = ButtonVue}) = 1
    /\ DeletedVue \notin OldPaths

=============================================================================
